---- MODULE Spec2Model ----
(***************************************************************************)
(* NL2KQL: the Query Refiner (validate / repair loop), the Schema Refiner  *)
(* and the Engine that sequences them around the generation call.          *)
(*                                                                         *)
(* Text is modelled as a sequence of one-character strings, so that the    *)
(* counting, searching, splitting and replacing the code does with regular *)
(* expressions is computed, character by character, as the code does it.   *)
(***************************************************************************)
EXTENDS Integers, Sequences, FiniteSets, TLC

VARIABLES
    kql,          \* refineQuery: the kql argument
    schemaArg,    \* refineQuery: the schema argument (absent or {tables, columns})
    query,        \* refineQuery: let query
    attempts,     \* refineQuery: let attempts
    errors,       \* refineQuery: const errors
    fixes,        \* refineQuery: const fixes
    rpc,          \* refineQuery: position ("idle", "loop", "done")
    result        \* refineQuery: the returned RefinementResult

VARIABLES
    nlq,            \* refineSchema: the nlq argument
    fullSchema,     \* refineSchema: the fullSchema argument
    refinedSchema,  \* refineSchema: the returned RefinedSchema (or the error thrown)
    foundEntities,  \* refineSchema: const entities, the value of extractEntities
    spc             \* refineSchema: position ("idle", "done")

VARIABLES
    defaultSchema,  \* NL2KQLEngine.defaultSchema
    examples,       \* FewShotSelector.examples
    now,            \* the clock Date.now() reads
    calls,          \* the invocations of convert: position, locals, result
    llmLog,         \* the calls received by the generation collaborator, in order
    installed       \* the argument of the last updateSchema (the constructor's schema before)

VARIABLES
    fsExamples,     \* FewShotSelector.examples of a selector used on its own
    added,          \* the number of calls of addExample made
    fsCall          \* the last call of the selector: arguments and value returned

VARIABLES
    kustoInitialized,  \* server.ts: let kustoInitialized
    fetched            \* server.ts: what became of the schema fetch of each request

VARIABLES
    kustoService       \* a KustoConnectionService: client, database, calls made

refineVars == <<kql, schemaArg, query, attempts, errors, fixes, rpc, result>>
schemaVars == <<nlq, fullSchema, refinedSchema, foundEntities, spc>>
engineVars == <<defaultSchema, examples, now, calls, llmLog, installed>>
selectorVars == <<fsExamples, added, fsCall>>
serverVars == <<kustoInitialized, fetched>>
kustoVars == <<kustoService>>
vars == <<refineVars, schemaVars, engineVars, selectorVars, serverVars, kustoVars>>

\* the value of the variables of a component that is not running
Parked == <<>>
RefineParked ==
    /\ kql = Parked /\ schemaArg = Parked /\ query = Parked /\ attempts = Parked
    /\ errors = Parked /\ fixes = Parked /\ rpc = Parked /\ result = Parked
SchemaParked ==
    /\ nlq = Parked /\ fullSchema = Parked /\ refinedSchema = Parked
    /\ foundEntities = Parked /\ spc = Parked
EngineParked ==
    /\ defaultSchema = Parked /\ examples = Parked /\ now = Parked
    /\ calls = Parked /\ llmLog = Parked /\ installed = Parked
SelectorParked ==
    /\ fsExamples = Parked /\ added = Parked /\ fsCall = Parked
ServerParked ==
    /\ kustoInitialized = Parked /\ fetched = Parked /\ kustoService = Parked

----------------------------------------------------------------------------
(* Bounds of the model                                                      *)

MaxLen == 5        \* longest candidate text over StrictAlphabet
MaxLineLen == 4    \* longest candidate text over LineAlphabet / DelimAlphabet
Pathological == 100  \* length of the runs of unmatched parentheses tried

----------------------------------------------------------------------------
(* Characters and strings                                                   *)

LowerLetters == <<"a", "b", "c", "d", "e", "f", "g", "h", "i", "j", "k", "l", "m",
                  "n", "o", "p", "q", "r", "s", "t", "u", "v", "w", "x", "y", "z">>
UpperLetters == <<"A", "B", "C", "D", "E", "F", "G", "H", "I", "J", "K", "L", "M",
                  "N", "O", "P", "Q", "R", "S", "T", "U", "V", "W", "X", "Y", "Z">>
Digits == {"0", "1", "2", "3", "4", "5", "6", "7", "8", "9"}

Range(f) == {f[i] : i \in DOMAIN f}

UpperSet == Range(UpperLetters)
LowerSet == Range(LowerLetters)

\* String.prototype.toLowerCase, as a table from the uppercase letters
LowerOf == [c \in UpperSet |-> LowerLetters[CHOOSE i \in 1..26 : UpperLetters[i] = c]]

\* String.prototype.toLowerCase, one character
LowerChar(c) == IF c \in UpperSet THEN LowerOf[c] ELSE c

\* String.prototype.toLowerCase
ToLowerCase(s) == [i \in 1..Len(s) |-> LowerChar(s[i])]

\* the regular expression class \w
WordChars == LowerSet \cup UpperSet \cup Digits \cup {"_"}
IsWordChar(c) == c \in WordChars

\* the regular expression class \s (and what trim() strips)
SpaceChars == {" ", "\n", "\t", "\r"}
IsSpace(c) == c \in SpaceChars

\* (s.match(/c/g) || []).length
CountChar(s, c) == Cardinality({i \in 1..Len(s) : s[i] = c})

\* s.substring(i - 1, j) with 1-based inclusive bounds
Slice(s, i, j) == IF j < i THEN <<>> ELSE [k \in 1..(j - i + 1) |-> s[i + k - 1]]

\* does lit occur in s at position i
MatchAt(s, i, lit) ==
    /\ i >= 1
    /\ i + Len(lit) - 1 <= Len(s)
    /\ \A k \in 1..Len(lit) : s[i + k - 1] = lit[k]

\* the same under the regular expression flag i (lit is lowercase)
MatchAtCI(s, i, lit) ==
    /\ i >= 1
    /\ i + Len(lit) - 1 <= Len(s)
    /\ \A k \in 1..Len(lit) : LowerChar(s[i + k - 1]) = lit[k]

\* String.prototype.includes
Includes(s, lit) == \E i \in 1..(Len(s) + 1) : MatchAt(s, i, lit)

\* String.prototype.startsWith
StartsWith(s, lit) == MatchAt(s, 1, lit)

\* String.prototype.trim
Trim(s) ==
    LET keep == {i \in 1..Len(s) : ~IsSpace(s[i])}
    IN  IF keep = {} THEN <<>>
        ELSE Slice(s, CHOOSE i \in keep : \A j \in keep : i <= j,
                      CHOOSE i \in keep : \A j \in keep : i >= j)

\* String.prototype.repeat for a one-character string
Repeat(c, n) == [i \in 1..n |-> c]

\* String.prototype.split('\n')
RECURSIVE SplitLines(_)
SplitLines(s) ==
    LET nl == {i \in 1..Len(s) : s[i] = "\n"}
    IN  IF nl = {} THEN <<s>>
        ELSE LET i == CHOOSE x \in nl : \A y \in nl : x <= y
             IN  <<Slice(s, 1, i - 1)>> \o SplitLines(Slice(s, i + 1, Len(s)))

\* Array.prototype.join('\n')
RECURSIVE JoinLines(_)
JoinLines(ls) ==
    IF Len(ls) = 0 THEN <<>>
    ELSE IF Len(ls) = 1 THEN ls[1]
    ELSE ls[1] \o <<"\n">> \o JoinLines(Tail(ls))

\* String.prototype.replace(/pat/g, rep) from position i on: the leftmost
\* match is replaced and the search resumes after it (matches do not overlap)
RECURSIVE ReplaceFrom(_, _, _, _)
ReplaceFrom(s, i, pat, rep) ==
    LET hits == {j \in i..Len(s) : MatchAt(s, j, pat)}
    IN  IF hits = {} THEN Slice(s, i, Len(s))
        ELSE LET j == CHOOSE x \in hits : \A y \in hits : x <= y
             IN  Slice(s, i, j - 1) \o rep \o ReplaceFrom(s, j + Len(pat), pat, rep)

ReplaceAll(s, pat, rep) == ReplaceFrom(s, 1, pat, rep)

----------------------------------------------------------------------------
(* QueryRefiner                                                             *)

maxAttempts == 3

\* an error / warning description; line and name are the interpolated parts
Err(m) == [msg |-> m, line |-> 0, name |-> <<>>]
ErrLine(m, n) == [msg |-> m, line |-> n, name |-> <<>>]
ErrName(m, nm) == [msg |-> m, line |-> 0, name |-> nm]

NonBlank(l) == Trim(l) # <<>>

\* the test both validateSyntax and fixSyntaxErrors apply to a trimmed line
LacksPipe(line) ==
    /\ line # <<>>
    /\ ~StartsWith(line, <<"|">>)
    /\ ~StartsWith(line, <<"/", "/">>)
    /\ ~StartsWith(line, <<".">>)

\* validateSyntax, the loop over lines.filter(l => l.trim()), from index 1
RECURSIVE PipeErrors(_, _)
PipeErrors(lines, i) ==
    IF i > Len(lines) THEN <<>>
    ELSE (IF LacksPipe(Trim(lines[i]))
          THEN <<ErrLine("Missing pipe operator at line", i)>>
          ELSE <<>>) \o PipeErrors(lines, i + 1)

validateSyntax_rejectsEmpty(q) ==
    IF q = <<>> THEN <<Err("Empty query")>>
    ELSE (IF CountChar(q, "(") # CountChar(q, ")")
          THEN <<Err("Unbalanced parentheses")>> ELSE <<>>)
         \o PipeErrors(SelectSeq(SplitLines(q), NonBlank), 2)
validateSyntax(q) ==
    (IF CountChar(q, "(") # CountChar(q, ")")
     THEN <<Err("Unbalanced parentheses")>> ELSE <<>>)
    \o (IF CountChar(q, "[") # CountChar(q, "]")
        THEN <<Err("Unbalanced brackets")>> ELSE <<>>)
    \o (IF CountChar(q, "'") % 2 # 0
        THEN <<Err("Unbalanced single quotes")>> ELSE <<>>)
    \o (IF CountChar(q, "\"") % 2 # 0
        THEN <<Err("Unbalanced double quotes")>> ELSE <<>>)
    \o (IF Includes(q, <<"=", "=", "=">>) \/ Includes(q, <<"!", "=", "=">>)
        THEN <<Err("Use == or != instead of === or !==")>> ELSE <<>>)
    \o PipeErrors(SelectSeq(SplitLines(q), NonBlank), 2)

\* fixSyntaxErrors, the map over fixed.split('\n')
FixLine_untrimmed(line, index) ==
    IF index = 1 THEN line
    ELSE IF LacksPipe(line) THEN <<"|", " ">> \o Trim(line)
    ELSE line
FixLine(line, index) ==
    IF index = 1 THEN line
    ELSE IF LacksPipe(Trim(line)) THEN <<"|", " ">> \o Trim(line)
    ELSE line

\* fixed += close.repeat(opens - closes) when opens > closes
AppendMissing_balances(s, open, close) ==
    IF CountChar(s, open) > CountChar(s, close)
    THEN s \o Repeat(close, CountChar(s, open) - CountChar(s, close))
    ELSE Repeat(open, CountChar(s, close) - CountChar(s, open)) \o s
AppendMissing_one(s, open, close) ==
    IF CountChar(s, open) > CountChar(s, close) THEN s \o <<close>> ELSE s
AppendMissing(s, open, close) ==
    IF CountChar(s, open) > CountChar(s, close)
    THEN s \o Repeat(close, CountChar(s, open) - CountChar(s, close))
    ELSE s

\* fixed += quote when the number of quotes is odd
AppendQuote(s, quote) ==
    IF CountChar(s, quote) % 2 # 0 THEN s \o <<quote>> ELSE s

\* lines.map(...).join('\n') of fixSyntaxErrors
FixLines(lines) == JoinLines([i \in 1..Len(lines) |-> FixLine(lines[i], i)])

\* fixSyntaxErrors up to the pipe fix: the strict tokens are collapsed, the
\* missing closing delimiters and quotes are appended
delimitersFixed(q) ==
    AppendQuote(
        AppendQuote(
            AppendMissing(
                AppendMissing(
                    ReplaceAll(ReplaceAll(q, <<"=", "=", "=">>, <<"=", "=">>),
                               <<"!", "=", "=">>, <<"!", "=">>),
                    "(", ")"),
                "[", "]"),
            "'"),
        "\"")

fixSyntaxErrors(q, errs) == FixLines(SplitLines(delimitersFixed(q)))

\* first position >= i of s that holds no whitespace (Len(s) + 1 if none): \s*
RECURSIVE SkipSpace(_, _)
SkipSpace(s, i) ==
    IF i <= Len(s) /\ IsSpace(s[i]) THEN SkipSpace(s, i + 1) ELSE i

\* last position of the run of word characters that starts at i: \w+
RECURSIVE WordEnd(_, _)
WordEnd(s, i) ==
    IF i + 1 <= Len(s) /\ IsWordChar(s[i + 1]) THEN WordEnd(s, i + 1) ELSE i

\* \b followed by a word character at position i
IsWordStart(s, i) ==
    /\ i >= 1 /\ i <= Len(s)
    /\ IsWordChar(s[i])
    /\ (i = 1 \/ ~IsWordChar(s[i - 1]))

MinOf(S) == CHOOSE x \in S : \A y \in S : x <= y
MaxOf(S) == CHOOSE x \in S : \A y \in S : x >= y

\* does \s*\|\s*where match right after the word that starts at i
PipeWhereAfter(q, i) ==
    /\ SkipSpace(q, WordEnd(q, i) + 1) <= Len(q)
    /\ q[SkipSpace(q, WordEnd(q, i) + 1)] = "|"
    /\ MatchAtCI(q, SkipSpace(q, SkipSpace(q, WordEnd(q, i) + 1) + 1),
                 <<"w", "h", "e", "r", "e">>)

\* the start positions of the matches of tablePattern
TableStarts(q) == {i \in 1..Len(q) : IsWordStart(q, i) /\ PipeWhereAfter(q, i)}

WordAt(q, i) == Slice(q, i, WordEnd(q, i))

\* kql.match(/(\b\w+)\s*\|\s*where/i): group 1 of the leftmost match, or <<>>
TableMatch(q) ==
    IF TableStarts(q) = {} THEN <<>> ELSE WordAt(q, MinOf(TableStarts(q)))

\* the alternation (==|!=|>|<|>=|<=|contains|startswith|endswith), in order
ColumnOperators == <<<<"=", "=">>,
                     <<"!", "=">>,
                     <<">">>,
                     <<"<">>,
                     <<">", "=">>,
                     <<"<", "=">>,
                     <<"c", "o", "n", "t", "a", "i", "n", "s">>,
                     <<"s", "t", "a", "r", "t", "s", "w", "i", "t", "h">>,
                     <<"e", "n", "d", "s", "w", "i", "t", "h">>>>

\* the alternatives that match at position i
OperatorsAt(q, i) == {k \in 1..Len(ColumnOperators) : MatchAtCI(q, i, ColumnOperators[k])}

\* length of the first alternative that matches at position i, or 0
OperatorAt(q, i) ==
    IF OperatorsAt(q, i) = {} THEN 0 ELSE Len(ColumnOperators[MinOf(OperatorsAt(q, i))])

\* the ends e of a group 1 that starts at i after which, past any whitespace,
\* an operator follows
ColumnEnds(q, i) ==
    IF ~IsWordStart(q, i) THEN {}
    ELSE {e \in i..WordEnd(q, i) : OperatorAt(q, SkipSpace(q, e + 1)) > 0}

\* where a match whose group 1 is q[i..e] ends: lastIndex
MatchEnd(q, e) == SkipSpace(q, e + 1) + OperatorAt(q, SkipSpace(q, e + 1))

\* the start positions >= from of the matches of columnPattern
ColumnStarts(q, from) == {i \in from..Len(q) : ColumnEnds(q, i) # {}}

\* the columnPattern.exec loop: group 1 of every match, from lastIndex on; the
\* match at the leftmost start takes the longest \w+ (greedy)
RECURSIVE ColumnMatches(_, _)
ColumnMatchFrom(q, i) ==
    <<Slice(q, i, MaxOf(ColumnEnds(q, i)))>>
    \o ColumnMatches(q, MatchEnd(q, MaxOf(ColumnEnds(q, i))))

ColumnMatches(q, from) ==
    IF ColumnStarts(q, from) = {} THEN <<>>
    ELSE ColumnMatchFrom(q, MinOf(ColumnStarts(q, from)))

Keywords == {<<"w", "h", "e", "r", "e">>,
             <<"s", "u", "m", "m", "a", "r", "i", "z", "e">>,
             <<"p", "r", "o", "j", "e", "c", "t">>,
             <<"e", "x", "t", "e", "n", "d">>,
             <<"j", "o", "i", "n">>,
             <<"u", "n", "i", "o", "n">>,
             <<"c", "o", "u", "n", "t">>,
             <<"a", "g", "o">>,
             <<"n", "o", "w">>,
             <<"t", "i", "m", "e", "g", "e", "n", "e", "r", "a", "t", "e", "d">>,
             <<"s", "t", "a", "r", "t", "o", "f", "d", "a", "y">>,
             <<"e", "n", "d", "o", "f", "d", "a", "y">>}

\* schema.tables.some(t => t.toLowerCase() === name.toLowerCase())
SomeEqualCI(names, name) ==
    \E k \in 1..Len(names) : ToLowerCase(names[k]) = ToLowerCase(name)

\* the warning for one column that has not been checked yet
ColumnWarning(col, schema) ==
    IF /\ ToLowerCase(col) \notin Keywords
       /\ Len(schema.columns) > 0
       /\ ~SomeEqualCI(schema.columns, col)
    THEN <<ErrName("Column not in provided schema (may still be valid)", col)>>
    ELSE <<>>

\* the warnings validateSemantics collects for the columns, with checkedColumns
RECURSIVE ColumnWarnings(_, _, _)
ColumnWarnings(cols, checked, schema) ==
    IF Len(cols) = 0 THEN <<>>
    ELSE IF ToLowerCase(cols[1]) \in checked
         THEN ColumnWarnings(Tail(cols), checked, schema)
         ELSE ColumnWarning(cols[1], schema)
              \o ColumnWarnings(Tail(cols), checked \cup {ToLowerCase(cols[1])}, schema)

\* the warning for the table name found before `| where`
TableWarning(name, schema) ==
    IF name # <<>> /\ ~SomeEqualCI(schema.tables, name)
    THEN <<ErrName("Table not in provided schema (may still be valid)", name)>>
    ELSE <<>>

\* const warnings of validateSemantics, as it stands before the return
semanticWarnings(q, schema) ==
    IF Len(schema.tables) = 0 THEN <<>>
    ELSE TableWarning(TableMatch(q), schema) \o ColumnWarnings(ColumnMatches(q, 1), {}, schema)

\* validateSemantics: the warnings are collected and an empty array is returned
validateSemantics_returnsWarnings(q, schema) == semanticWarnings(q, schema)
validateSemantics(q, schema) ==
    LET warnings == semanticWarnings(q, schema)
    IN  <<>>

\* the text of an error description, as the template literal builds it
Render(e) ==
    IF e.msg = "Table not in provided schema (may still be valid)"
    THEN <<"T", "a", "b", "l", "e", " ", "\"">> \o e.name
         \o <<"\"", " ", "n", "o", "t", " ", "i", "n", " ", "p", "r", "o", "v", "i", "d", "e", "d", " ", "s", "c", "h", "e", "m", "a", " ", "(", "m", "a", "y", " ", "s", "t", "i", "l", "l", " ", "b", "e", " ", "v", "a", "l", "i", "d", ")">>
    ELSE IF e.msg = "Column not in provided schema (may still be valid)"
    THEN <<"C", "o", "l", "u", "m", "n", " ", "\"">> \o e.name
         \o <<"\"", " ", "n", "o", "t", " ", "i", "n", " ", "p", "r", "o", "v", "i", "d", "e", "d", " ", "s", "c", "h", "e", "m", "a", " ", "(", "m", "a", "y", " ", "s", "t", "i", "l", "l", " ", "b", "e", " ", "v", "a", "l", "i", "d", ")">>
    ELSE e.name

\* positions of the opening quote of the matches of /"([^"]+)"/
QuoteOpens(s) ==
    {i \in 1..Len(s) :
        /\ s[i] = "\""
        /\ i + 1 <= Len(s) /\ s[i + 1] # "\""
        /\ \E j \in (i + 2)..Len(s) : s[j] = "\""}

\* position of the first quote after position i
NextQuote(s, i) == MinOf({x \in (i + 1)..Len(s) : s[x] = "\""})

\* s.match(/"([^"]+)"/): group 1 of the leftmost match, or <<>>
FirstQuoted(s) ==
    IF QuoteOpens(s) = {} THEN <<>>
    ELSE Slice(s, MinOf(QuoteOpens(s)) + 1, NextQuote(s, MinOf(QuoteOpens(s))) - 1)

\* a score of findClosestMatch, min length over max length, as a fraction
ScoreGreater(a, b) == a.num * b.den > b.num * a.den

\* Math.min(a, b) / Math.max(a, b) of two lengths
LengthRatio(a, b) == IF a < b THEN [num |-> a, den |-> b] ELSE [num |-> b, den |-> a]

\* findClosestMatch, one candidate: the new [match, found, score]; cl and tl are
\* the lowercased candidate and target
ClosestStep_lastOnTies(c, cl, tl, best) ==
    IF cl = tl
    THEN [match |-> c, found |-> TRUE, score |-> [num |-> 1, den |-> 1]]
    ELSE IF /\ (Includes(cl, tl) \/ Includes(tl, cl))
            /\ ~ScoreGreater(best.score, LengthRatio(Len(cl), Len(tl)))
    THEN [match |-> c, found |-> TRUE, score |-> LengthRatio(Len(cl), Len(tl))]
    ELSE best
ClosestStep(c, cl, tl, best) ==
    IF cl = tl
    THEN [match |-> c, found |-> TRUE, score |-> [num |-> 1, den |-> 1]]
    ELSE IF /\ (Includes(cl, tl) \/ Includes(tl, cl))
            /\ ScoreGreater(LengthRatio(Len(cl), Len(tl)), best.score)
    THEN [match |-> c, found |-> TRUE, score |-> LengthRatio(Len(cl), Len(tl))]
    ELSE best

\* findClosestMatch, the forEach over candidates
RECURSIVE ClosestFrom(_, _, _)
ClosestFrom(target, candidates, best) ==
    IF Len(candidates) = 0 THEN best
    ELSE ClosestFrom(target, Tail(candidates),
                     ClosestStep(candidates[1], ToLowerCase(candidates[1]),
                                 ToLowerCase(target), best))

\* findClosestMatch: found = FALSE stands for null
findClosestMatch(target, candidates) ==
    ClosestFrom(target, candidates,
                [match |-> <<>>, found |-> FALSE, score |-> [num |-> 0, den |-> 1]])

\* fixed.replace(new RegExp(`\\b${word}\\b`, 'gi'), rep), word made of \w characters
RECURSIVE ReplaceWordCI(_, _, _, _)
ReplaceWordCI(s, i, word, rep) ==
    IF i > Len(s) THEN <<>>
    ELSE IF /\ Len(word) > 0
            /\ MatchAtCI(s, i, ToLowerCase(word))
            /\ (i = 1 \/ ~IsWordChar(s[i - 1]))
            /\ (i + Len(word) > Len(s) \/ ~IsWordChar(s[i + Len(word)]))
         THEN rep \o ReplaceWordCI(s, i + Len(word), word, rep)
         ELSE <<s[i]>> \o ReplaceWordCI(s, i + 1, word, rep)

\* fixSemanticErrors, one branch of the forEach body: text is the error, name
\* the quoted name in it, closest the result of findClosestMatch
FixName(q, text, kind, name, closest) ==
    IF /\ Includes(text, kind)
       /\ Includes(text, <<"n", "o", "t", " ", "f", "o", "u", "n", "d">>)
       /\ name # <<>>
       /\ closest.found
    THEN ReplaceWordCI(q, 1, name, closest.match)
    ELSE q

\* fixSemanticErrors, the forEach body for the error with text `text`
FixOne(q, text, name, schema) ==
    FixName(FixName(q, text, <<"T", "a", "b", "l", "e">>, name,
                    findClosestMatch(name, schema.tables)),
            text, <<"C", "o", "l", "u", "m", "n">>, name,
            findClosestMatch(name, schema.columns))

\* fixSemanticErrors, the forEach over errors
RECURSIVE fixSemanticErrors(_, _, _)
fixSemanticErrors(q, errs, schema) ==
    IF Len(errs) = 0 THEN q
    ELSE fixSemanticErrors(FixOne(q, Render(errs[1]), FirstQuoted(Render(errs[1])), schema),
                           Tail(errs), schema)

\* the absent schema argument (schema === undefined)
NoSchema == [present |-> FALSE, tables |-> <<>>, columns |-> <<>>]
SchemaOf(ts, cols) == [present |-> TRUE, tables |-> ts, columns |-> cols]

\* refineQuery, the locals after a repair: the errors found are recorded, the
\* text is replaced by the fixed one, a fix description is pushed, attempts++
repaired_oneFixPerError(st, found, fixed, what) ==
    [kind |-> "continue",
     query |-> fixed,
     attempts |-> st.attempts + 1,
     errors |-> st.errors \o found,
     fixes |-> st.fixes \o [e \in 1..Len(found) |-> [fix |-> what, of |-> <<found[e]>>]]]
repaired(st, found, fixed, what) ==
    [kind |-> "continue",
     query |-> fixed,
     attempts |-> st.attempts + 1,
     errors |-> st.errors \o found,
     fixes |-> Append(st.fixes, [fix |-> what, of |-> found])]

\* refineQuery, the rest of the while body once syntaxErrors is empty
semanticPass(st, schema, semanticErrors) ==
    IF schema.present /\ Len(semanticErrors) > 0
    THEN repaired(st, semanticErrors,
                  fixSemanticErrors(st.query, semanticErrors, schema),
                  "Fixed semantic errors")
    ELSE [kind |-> "return",
          query |-> st.query, attempts |-> st.attempts,
          errors |-> st.errors, fixes |-> st.fixes]

\* refineQuery, the while body from the point where syntaxErrors is known
syntaxPass(st, schema, syntaxErrors) ==
    IF Len(syntaxErrors) > 0
    THEN repaired(st, syntaxErrors, fixSyntaxErrors(st.query, syntaxErrors),
                  "Fixed syntax errors")
    ELSE semanticPass(st, schema,
                      IF schema.present THEN validateSemantics(st.query, schema) ELSE <<>>)

\* refineQuery, one pass of the while body on the locals st:
\* a repair (continue) or the return of the valid result
loopBody(st, schema) == syntaxPass(st, schema, validateSyntax(st.query))

\* the RefinementResult of the return inside the loop
validResult_countsPass(st) ==
    [query |-> st.query, isValid |-> TRUE, errors |-> <<>>,
     fixes |-> st.fixes, attempts |-> st.attempts + 1]
validResult_keepsErrors(st) ==
    [query |-> st.query, isValid |-> TRUE, errors |-> st.errors,
     fixes |-> st.fixes, attempts |-> st.attempts]
validResult(st) ==
    [query |-> st.query, isValid |-> TRUE, errors |-> <<>>,
     fixes |-> st.fixes, attempts |-> st.attempts]

\* the RefinementResult of the return after the loop
bestAttemptResult(st) ==
    [query |-> st.query, isValid |-> (Len(st.errors) = 0), errors |-> st.errors,
     fixes |-> st.fixes, attempts |-> st.attempts]

\* the locals of refineQuery at loop entry
entryState(text) ==
    [query |-> Trim(text), attempts |-> 0, errors |-> <<>>, fixes |-> <<>>]

\* the condition of the while loop
loopCondition_offByOne(a) == a <= maxAttempts
loopCondition(a) == a < maxAttempts

\* the locals kept from one pass to the next
localsOf(b) == [query |-> b.query, attempts |-> b.attempts, errors |-> b.errors, fixes |-> b.fixes]

RECURSIVE refineLoop(_, _)
\* what follows a pass of the loop whose outcome is b
afterPass(b, schema) ==
    IF b.kind = "return" THEN validResult(b) ELSE refineLoop(localsOf(b), schema)

refineLoop(st, schema) ==
    IF loopCondition(st.attempts)
    THEN afterPass(loopBody(st, schema), schema)
    ELSE bestAttemptResult(st)

\* refineQuery as a function of its arguments
refineQuery(text, schema) == refineLoop(entryState(text), schema)

----------------------------------------------------------------------------
(* refineQuery as a state machine: one action per pass of the while loop    *)

StringsUpTo(A, n) == UNION {[1..k -> A] : k \in 0..n}

StrictAlphabet == {"=", "!", "a"}
LineAlphabet == {"a", "\n", "|", " "}
DelimAlphabet == {"(", ")", "'"}

\* candidate texts a generation call may return, written out
SampleQueries == {
    <<"T", "b", " ", "|", " ", "w", "h", "e", "r", "e", " ", "a", "b", " ", "=", "=", " ", "1">>,
    <<"Z", "z", " ", "|", " ", "w", "h", "e", "r", "e", " ", "z", "z", " ", "=", "=", "=", " ", "1">>,
    <<"T", "b", " ", "|", " ", "w", "h", "e", "r", "e", " ", "a", "b", " ", ">", " ", "a", "g", "o", "(", "1", "h">>,
    <<"T", "b", "\n", "w", "h", "e", "r", "e", " ", "z", "z", " ", "c", "o", "n", "t", "a", "i", "n", "s", " ", "\"", "x">>,
    <<"Z", "z", " ", "|", " ", "w", "h", "e", "r", "e", " ", "a", "b", " ", "=", "=", " ", "1", ")">>,
    <<"S", "e", "c", "u", "r", "i", "t", "y", "E", "v", "e", "n", "t", " ", "|", " ", "w", "h", "e", "r", "e", " ", "T", "i", "m", "e", "G", "e", "n", "e", "r", "a", "t", "e", "d", " ", ">", " ", "a", "g", "o", "(", "1", "h">>,
    <<"T", "b", " ", "|", " ", "e", "x", "t", "e", "n", "d", " ", "c", " ", "=", " ", "a", "b", "[", "(", "1">>,
    <<" ", "T", "b", " ", "|", " ", "w", "h", "e", "r", "e", " ", "f", "(", "(", "a", "b", " ">>,
    <<"T", "b", " ", "|", " ", "w", "h", "e", "r", "e", " ", "A", "c", "t", "i", "v", "i", "t", "y", " ", "=", "=", "=", " ", "\"", "L", "o", "g", "o", "n", "\"", " ", "a", "n", "d", " ", "a", "b", " ", "!", "=", "=", " ", "1">>,
    <<"T", "b", "\n", " ", " ", "|", " ", "w", "h", "e", "r", "e", " ", "a", "b", " ", "=", "=", " ", "1", "\n", " ", "\n", "t", "a", "k", "e", " ", "5">>,
    <<"T", "b", " ", "|", " ", "e", "x", "t", "e", "n", "d", " ", "c", " ", "=", " ", "a", "b", "[", "1", "]", "]">>,
    <<"T", " ", "|", " ", "w", "h", "e", "r", "e", " ", "f", "(", "a", ")", ")", " ", "a", "n", "d", " ", "b", "[", "0", "]", "]", " ", "=", "=", " ", "'", "x">>,
    Repeat("(", Pathological), Repeat(")", Pathological)}

QueryInputs ==
    StringsUpTo(StrictAlphabet, MaxLen) \cup StringsUpTo(LineAlphabet, MaxLineLen)
    \cup StringsUpTo(DelimAlphabet, MaxLineLen) \cup SampleQueries

\* schema arguments: absent, empty lists, lists that lack the sample names
SchemaInputs == {NoSchema, SchemaOf(<<>>, <<>>), SchemaOf(<<<<"T", "b">>>>, <<<<"a", "b">>>>)}

NoResult == [query |-> <<>>, isValid |-> FALSE, errors |-> <<>>, fixes |-> <<>>, attempts |-> 0]

locals == [query |-> query, attempts |-> attempts, errors |-> errors, fixes |-> fixes]

InitRefine ==
    /\ kql = <<>>
    /\ schemaArg = NoSchema
    /\ query = <<>>
    /\ attempts = 0
    /\ errors = <<>>
    /\ fixes = <<>>
    /\ rpc = "idle"
    /\ result = NoResult
    /\ SchemaParked
    /\ EngineParked
    /\ SelectorParked
    /\ ServerParked

\* refineQuery is called with some text and schema argument: the locals are set up
RefineEnter ==
    /\ rpc = "idle"
    /\ \E text \in QueryInputs, schema \in SchemaInputs :
        /\ kql' = text
        /\ schemaArg' = schema
        /\ \E st \in {entryState(text)} :
            /\ query' = st.query
            /\ attempts' = st.attempts
            /\ errors' = st.errors
            /\ fixes' = st.fixes
    /\ rpc' = "loop"
    /\ UNCHANGED <<result, schemaVars, engineVars, selectorVars, serverVars, kustoVars>>

\* a pass of the loop that finds errors, repairs and continues
RefineRepair ==
    /\ rpc = "loop"
    /\ loopCondition(attempts)
    /\ \E b \in {loopBody(locals, schemaArg)} :
        /\ b.kind = "continue"
        /\ query' = b.query
        /\ attempts' = b.attempts
        /\ errors' = b.errors
        /\ fixes' = b.fixes
    /\ UNCHANGED <<kql, schemaArg, rpc, result, schemaVars, engineVars, selectorVars, serverVars, kustoVars>>

\* a pass of the loop that finds no error and returns the valid result
RefineReturnValid ==
    /\ rpc = "loop"
    /\ loopCondition(attempts)
    /\ \E b \in {loopBody(locals, schemaArg)} :
        /\ b.kind = "return"
        /\ result' = validResult(b)
    /\ rpc' = "done"
    /\ UNCHANGED <<kql, schemaArg, query, attempts, errors, fixes, schemaVars, engineVars, selectorVars, serverVars, kustoVars>>

\* the loop condition fails: the best attempt is returned
RefineReturnBest ==
    /\ rpc = "loop"
    /\ ~loopCondition(attempts)
    /\ result' = bestAttemptResult(locals)
    /\ rpc' = "done"
    /\ UNCHANGED <<kql, schemaArg, query, attempts, errors, fixes, schemaVars, engineVars, selectorVars, serverVars, kustoVars>>

NextRefine == RefineEnter \/ RefineRepair \/ RefineReturnValid \/ RefineReturnBest

SpecRefine == InitRefine /\ [][NextRefine]_vars

----------------------------------------------------------------------------
(* Claims about refineQuery                                                 *)

\* C1: refineQuery returns after at most 3 repair attempts whatever the text
\* and the schema argument: the attempt counter never decreases, every pass of
\* the loop that does not return increases it by one (so 3 - attempts is a
\* variant of the loop), it never exceeds 3, and the returned attempts value is
\* in 0..3.
C1_TerminatesWithinCap ==
    /\ [](attempts \in 0..3)
    /\ [](rpc = "done" => result.attempts \in 0..3)
    /\ [][attempts' >= attempts]_vars
    /\ [][(rpc = "loop" /\ rpc' = "loop") => attempts' = attempts + 1]_vars
    /\ [][(rpc = "loop" /\ attempts = 3) => rpc' = "done"]_vars

\* C1 witness: the run of 100 unmatched closing parentheses has been returned
\* after the third repair.
C1_Witness ==
    /\ rpc = "done"
    /\ kql = Repeat(")", Pathological)
    /\ result.attempts = 3

\* C2: the result of refineQuery is the same for every schema argument, and a
\* text without structural errors is reported valid whatever the schema says
\* about the names it references.
C2_SchemaNeverInfluences ==
    rpc = "done" =>
        /\ \A s \in SchemaInputs : refineQuery(kql, s) = result
        /\ (validateSyntax(Trim(kql)) = <<>> => result.isValid)

\* C2 witness: a query that names a table or column the schema lacks has been
\* returned as valid.
C2_Witness ==
    /\ rpc = "done"
    /\ schemaArg.present
    /\ semanticWarnings(result.query, schemaArg) # <<>>
    /\ result.isValid

\* C3: a result with isValid = true carries a text on which the checker
\* reports no error, an empty error list, and one fix per repair attempt.
C3_ValidResult ==
    (rpc = "done" /\ result.isValid) =>
        /\ validateSyntax(result.query) = <<>>
        /\ result.errors = <<>>
        /\ Len(result.fixes) = result.attempts

\* C3 witness: a valid result returned after errors were found and repaired.
C3_Witness ==
    /\ rpc = "done"
    /\ result.isValid
    /\ Len(errors) > 0
    /\ result.attempts >= 1

\* C4: every result with isValid = false has attempts = 3 and a text on which
\* the checker still reports at least one error.
C4_ExhaustedOnlyWhileErrorsPersist ==
    (rpc = "done" /\ ~result.isValid) =>
        /\ result.attempts = 3
        /\ validateSyntax(result.query) # <<>>

----------------------------------------------------------------------------
(* SchemaRefiner                                                            *)

\* the value undefined: a missing name, description or database
Undefined == <<"undefined">>

\* a ColumnSchema without description and a TableSchema
Column(name, type) == [name |-> name, type |-> type, description |-> Undefined]
Table(name, description, columns, domain) ==
    [name |-> name, description |-> description, columns |-> columns, domain |-> domain]

\* if (table.description): neither undefined nor ''
Truthy(s) == s # Undefined /\ s # <<>>

domainTerms == <<
    <<"s", "e", "c", "u", "r", "i", "t", "y">>,
    <<"e", "v", "e", "n", "t">>,
    <<"l", "o", "g">>,
    <<"a", "u", "t", "h", "e", "n", "t", "i", "c", "a", "t", "i", "o", "n">>,
    <<"a", "u", "t", "h", "o", "r", "i", "z", "a", "t", "i", "o", "n">>,
    <<"u", "s", "e", "r">>,
    <<"a", "c", "c", "o", "u", "n", "t">>,
    <<"l", "o", "g", "i", "n">>,
    <<"f", "a", "i", "l", "e", "d">>,
    <<"s", "u", "c", "c", "e", "s", "s">>,
    <<"e", "r", "r", "o", "r">>,
    <<"p", "r", "o", "c", "e", "s", "s">>,
    <<"f", "i", "l", "e">>,
    <<"n", "e", "t", "w", "o", "r", "k">>,
    <<"c", "o", "n", "n", "e", "c", "t", "i", "o", "n">>,
    <<"t", "h", "r", "e", "a", "t">>,
    <<"m", "a", "l", "w", "a", "r", "e">>,
    <<"d", "e", "v", "i", "c", "e">>,
    <<"c", "o", "m", "p", "u", "t", "e", "r">>,
    <<"s", "e", "r", "v", "e", "r">>,
    <<"c", "l", "i", "e", "n", "t">>,
    <<"i", "p">>,
    <<"p", "o", "r", "t">>,
    <<"t", "i", "m", "e">>,
    <<"d", "a", "t", "e">>,
    <<"h", "o", "u", "r">>,
    <<"d", "a", "y">>,
    <<"w", "e", "e", "k">>,
    <<"m", "o", "n", "t", "h">>,
    <<"l", "a", "s", "t">>,
    <<"a", "g", "o">>>>

\* the number of elements of seq that satisfy P: a counter incremented in a forEach
CountOf(seq, P(_)) == Cardinality({k \in 1..Len(seq) : P(seq[k])})

RECURSIVE SumSeq(_)
SumSeq(ns) == IF Len(ns) = 0 THEN 0 ELSE ns[1] + SumSeq(Tail(ns))

Front(s) == SubSeq(s, 1, Len(s) - 1)
Last(s) == s[Len(s)]

\* [...new Set(entities)]: the first occurrence of every element, in order
RECURSIVE Unique(_)
Unique(s) ==
    IF Len(s) = 0 THEN <<>>
    ELSE Unique(Front(s)) \o (IF Last(s) \in Range(Front(s)) THEN <<>> ELSE <<Last(s)>>)

\* domainTerms.forEach(term => { if (lowerQuery.includes(term)) entities.push(term) })
DomainEntities(lowerQuery) == SelectSeq(domainTerms, LAMBDA term : Includes(lowerQuery, term))

\* positions >= from of the opening quote of the matches of /"([^"]+)"/g
QuoteOpensFrom(s, from) ==
    {i \in from..Len(s) :
        /\ s[i] = "\""
        /\ i + 1 <= Len(s) /\ s[i + 1] # "\""
        /\ \E j \in (i + 2)..Len(s) : s[j] = "\""}

\* nlq.match(/"([^"]+)"/g), each match with its quotes removed
RECURSIVE QuotedFrom(_, _)
QuotedAt(s, i) ==
    <<Slice(s, i + 1, NextQuote(s, i) - 1)>> \o QuotedFrom(s, NextQuote(s, i) + 1)

QuotedFrom(s, from) ==
    IF QuoteOpensFrom(s, from) = {} THEN <<>>
    ELSE QuotedAt(s, MinOf(QuoteOpensFrom(s, from)))

IsUpper(c) == c \in UpperSet
IsLower(c) == c \in LowerSet

\* last position of the run [a-z]* that follows position i
RECURSIVE LowerRunEnd(_, _)
LowerRunEnd(s, i) ==
    IF i + 1 <= Len(s) /\ IsLower(s[i + 1]) THEN LowerRunEnd(s, i + 1) ELSE i

\* does /\b[A-Z][a-z]+\b/ match at position i
IsCapitalizedWord(s, i) ==
    /\ IsWordStart(s, i)
    /\ IsUpper(s[i])
    /\ LowerRunEnd(s, i) > i
    /\ (LowerRunEnd(s, i) = Len(s) \/ ~IsWordChar(s[LowerRunEnd(s, i) + 1]))

\* nlq.match(/\b[A-Z][a-z]+\b/g)
RECURSIVE CapitalizedFrom(_, _)
CapitalizedAt(s, i) ==
    <<Slice(s, i, LowerRunEnd(s, i))>> \o CapitalizedFrom(s, LowerRunEnd(s, i) + 1)

CapitalizedFrom(s, from) ==
    IF {i \in from..Len(s) : IsCapitalizedWord(s, i)} = {} THEN <<>>
    ELSE CapitalizedAt(s, MinOf({i \in from..Len(s) : IsCapitalizedWord(s, i)}))

\* if (word.length > 3)
LongWord(word) == Len(word) > 3

\* the capitalized words kept, lowercased
CapitalizedEntities(words) ==
    [k \in 1..Len(SelectSeq(words, LongWord)) |-> ToLowerCase(SelectSeq(words, LongWord)[k])]

extractEntities(q) ==
    Unique(DomainEntities(ToLowerCase(q))
           \o QuotedFrom(q, 1)
           \o CapitalizedEntities(CapitalizedFrom(q, 1)))

\* matchTables: score += 10 for every entity the table name contains or is contained in
TableNameScore(entities, tableNameLower) ==
    10 * CountOf(entities, LAMBDA entity :
                    Includes(tableNameLower, entity) \/ Includes(entity, tableNameLower))

\* score += weight for every entity the description contains (5 for a table, 3 for a column)
DescriptionScore(entities, description, weight) ==
    IF Truthy(description)
    THEN weight * CountOf(entities, LAMBDA entity : Includes(ToLowerCase(description), entity))
    ELSE 0

\* matchTables: score += 3 for every domain tag that is an entity
DomainScore(entities, domain) ==
    3 * CountOf(domain, LAMBDA d : ToLowerCase(d) \in Range(entities))

\* matchTables: score += 2 for every (column, entity) where the column name contains the entity
ColumnNamesScore(entities, columns) ==
    SumSeq([c \in 1..Len(columns) |->
                2 * CountOf(entities, LAMBDA entity :
                                Includes(ToLowerCase(columns[c].name), entity))])

TableScore(entities, table) ==
    TableNameScore(entities, ToLowerCase(table.name))
    + DescriptionScore(entities, table.description, 5)
    + DomainScore(entities, table.domain)
    + ColumnNamesScore(entities, table.columns)

matchTables(entities, tables) ==
    [t \in 1..Len(tables) |-> [item |-> tables[t], score |-> TableScore(entities, tables[t])]]

\* matchColumns: score += 5 for every entity the column name contains or is contained in
ColumnNameScore(entities, colNameLower) ==
    5 * CountOf(entities, LAMBDA entity :
                    Includes(colNameLower, entity) \/ Includes(entity, colNameLower))

ColumnScore(entities, column) ==
    ColumnNameScore(entities, ToLowerCase(column.name))
    + DescriptionScore(entities, column.description, 3)

\* the columns of all tables, table by table
RECURSIVE AllColumns(_)
AllColumns(tables) ==
    IF Len(tables) = 0 THEN <<>> ELSE tables[1].columns \o AllColumns(Tail(tables))

\* a list of columns without the later columns of a name already met
AppendIfNew(columns, column) ==
    IF \E k \in 1..Len(columns) : columns[k].name = column.name
    THEN columns ELSE Append(columns, column)

RECURSIVE DistinctNames(_)
DistinctNames(columns) ==
    IF Len(columns) = 0 THEN <<>>
    ELSE AppendIfNew(DistinctNames(Front(columns)), Last(columns))

\* the scored columns, given the columns of all tables
ScoredColumns(entities, columns) ==
    [c \in 1..Len(columns) |-> [item |-> columns[c], score |-> ColumnScore(entities, columns[c])]]

matchColumns_distinctNames(entities, tables) ==
    ScoredColumns(entities, DistinctNames(AllColumns(tables)))
matchColumns_fromEntities(entities, tables) ==
    [e \in 1..Len(entities) |-> [item |-> Column(entities[e], <<>>), score |-> 1]]
matchColumns(entities, tables) == ScoredColumns(entities, AllColumns(tables))

\* Array.prototype.sort((a, b) => b.score - a.score) is stable: x goes behind
\* the elements of the sorted prefix whose score is not smaller
InsertAt(sorted, x, k) == SubSeq(sorted, 1, k) \o <<x>> \o SubSeq(sorted, k + 1, Len(sorted))

InsertByScore_unstable(sorted, x) ==
    InsertAt(sorted, x, Cardinality({k \in 1..Len(sorted) : sorted[k].score > x.score}))
InsertByScore(sorted, x) ==
    InsertAt(sorted, x, Cardinality({k \in 1..Len(sorted) : sorted[k].score >= x.score}))

RECURSIVE SortByScore(_)
SortByScore(s) ==
    IF Len(s) = 0 THEN <<>> ELSE InsertByScore(SortByScore(Front(s)), Last(s))

PositiveScore(m) == m.score > 0

rankByRelevance(matches) == SortByScore(SelectSeq(matches, PositiveScore))

selectTopK_all(ranked, k) == ranked
selectTopK(ranked, k) == SubSeq(ranked, 1, IF Len(ranked) < k THEN Len(ranked) ELSE k)

\* tableMatches[0]?.score || 0
TopScore(ranked) == IF Len(ranked) = 0 THEN 0 ELSE ranked[1].score

\* (topTableScore + topColumnScore) / 2, as a fraction
computeOverallRelevance(tableMatches, columnMatches) ==
    [num |-> TopScore(tableMatches) + TopScore(columnMatches), den |-> 2]

\* topTables.map(t => t.item)
ItemsOf(top) == [i \in 1..Len(top) |-> top[i].item]

\* the k of selectTopK(rankedTables, 5) and selectTopK(rankedColumns, 20)
TopTables == 5
TopColumns == 20

\* the outcome of a call: the value returned, or the error thrown
SchemaThrown(msg) ==
    [threw |-> TRUE, message |-> msg, tables |-> <<>>, columns |-> <<>>,
     relevance |-> [num |-> 0, den |-> 2]]

\* refineSchema from the ranking on: selection and the returned object
RefinedFrom(rankedTables, rankedColumns) ==
    [threw |-> FALSE, message |-> "",
     tables |-> ItemsOf(selectTopK(rankedTables, TopTables)),
     columns |-> ItemsOf(selectTopK(rankedColumns, TopColumns)),
     relevance |-> computeOverallRelevance(rankedTables, rankedColumns)]

\* is there a table or column whose name is undefined: name.toLowerCase() throws
NameMissing(tables) ==
    \E t \in 1..Len(tables) :
        \/ tables[t].name = Undefined
        \/ \E c \in 1..Len(tables[t].columns) : tables[t].columns[c].name = Undefined

refineSchema(q, schema) ==
    IF q = Undefined \/ NameMissing(schema.tables)
    THEN SchemaThrown("Cannot read properties of undefined (reading 'toLowerCase')")
    ELSE RefinedFrom(rankByRelevance(matchTables(extractEntities(q), schema.tables)),
                     rankByRelevance(matchColumns(extractEntities(q), schema.tables)))

----------------------------------------------------------------------------
(* The schemas and questions tried                                          *)

MaxWords == 2       \* longest question, in words
ManyTables == 6     \* tables of WideSchema
ColsPerTable == 4   \* columns of each table of WideSchema

createDefaultSchema ==
    [database |-> <<"S", "e", "c", "u", "r", "i", "t", "y", "D", "a", "t", "a", "b", "a", "s", "e">>,
     tables |-> <<
        Table(<<"S", "e", "c", "u", "r", "i", "t", "y", "E", "v", "e", "n", "t">>,
          <<"S", "e", "c", "u", "r", "i", "t", "y", " ", "e", "v", "e", "n", "t", "s", " ", "f", "r", "o", "m", " ", "W", "i", "n", "d", "o", "w", "s", " ", "c", "o", "m", "p", "u", "t", "e", "r", "s", ",", " ", "i", "n", "c", "l", "u", "d", "i", "n", "g", " ", "a", "u", "t", "h", "e", "n", "t", "i", "c", "a", "t", "i", "o", "n", ",", " ", "a", "u", "t", "h", "o", "r", "i", "z", "a", "t", "i", "o", "n", ",", " ", "a", "n", "d", " ", "a", "u", "d", "i", "t", " ", "e", "v", "e", "n", "t", "s">>,
          <<Column(<<"T", "i", "m", "e", "G", "e", "n", "e", "r", "a", "t", "e", "d">>, <<"d", "a", "t", "e", "t", "i", "m", "e">>),
            Column(<<"A", "c", "c", "o", "u", "n", "t">>, <<"s", "t", "r", "i", "n", "g">>),
            Column(<<"A", "c", "c", "o", "u", "n", "t", "T", "y", "p", "e">>, <<"s", "t", "r", "i", "n", "g">>),
            Column(<<"A", "c", "t", "i", "v", "i", "t", "y">>, <<"s", "t", "r", "i", "n", "g">>),
            Column(<<"C", "o", "m", "p", "u", "t", "e", "r">>, <<"s", "t", "r", "i", "n", "g">>),
            Column(<<"E", "v", "e", "n", "t", "I", "D">>, <<"i", "n", "t">>),
            Column(<<"E", "v", "e", "n", "t", "R", "e", "s", "u", "l", "t">>, <<"s", "t", "r", "i", "n", "g">>),
            Column(<<"S", "o", "u", "r", "c", "e", "I", "P">>, <<"s", "t", "r", "i", "n", "g">>)>>,
          <<<<"s", "e", "c", "u", "r", "i", "t", "y">>, <<"w", "i", "n", "d", "o", "w", "s">>, <<"a", "u", "t", "h", "e", "n", "t", "i", "c", "a", "t", "i", "o", "n">>>>),
        Table(<<"E", "v", "e", "n", "t", "L", "o", "g">>,
          <<"W", "i", "n", "d", "o", "w", "s", " ", "e", "v", "e", "n", "t", " ", "l", "o", "g", "s", " ", "i", "n", "c", "l", "u", "d", "i", "n", "g", " ", "s", "y", "s", "t", "e", "m", ",", " ", "a", "p", "p", "l", "i", "c", "a", "t", "i", "o", "n", ",", " ", "a", "n", "d", " ", "s", "e", "c", "u", "r", "i", "t", "y", " ", "e", "v", "e", "n", "t", "s">>,
          <<Column(<<"T", "i", "m", "e", "G", "e", "n", "e", "r", "a", "t", "e", "d">>, <<"d", "a", "t", "e", "t", "i", "m", "e">>),
            Column(<<"L", "e", "v", "e", "l">>, <<"s", "t", "r", "i", "n", "g">>),
            Column(<<"M", "e", "s", "s", "a", "g", "e">>, <<"s", "t", "r", "i", "n", "g">>),
            Column(<<"S", "o", "u", "r", "c", "e">>, <<"s", "t", "r", "i", "n", "g">>),
            Column(<<"E", "v", "e", "n", "t", "I", "D">>, <<"i", "n", "t">>),
            Column(<<"C", "o", "m", "p", "u", "t", "e", "r">>, <<"s", "t", "r", "i", "n", "g">>)>>,
          <<<<"l", "o", "g", "s">>, <<"w", "i", "n", "d", "o", "w", "s">>, <<"e", "v", "e", "n", "t", "s">>>>),
        Table(<<"P", "r", "o", "c", "e", "s", "s", "E", "v", "e", "n", "t">>,
          <<"P", "r", "o", "c", "e", "s", "s", " ", "c", "r", "e", "a", "t", "i", "o", "n", " ", "a", "n", "d", " ", "t", "e", "r", "m", "i", "n", "a", "t", "i", "o", "n", " ", "e", "v", "e", "n", "t", "s">>,
          <<Column(<<"T", "i", "m", "e", "G", "e", "n", "e", "r", "a", "t", "e", "d">>, <<"d", "a", "t", "e", "t", "i", "m", "e">>),
            Column(<<"E", "v", "e", "n", "t", "T", "y", "p", "e">>, <<"s", "t", "r", "i", "n", "g">>),
            Column(<<"P", "r", "o", "c", "e", "s", "s", "N", "a", "m", "e">>, <<"s", "t", "r", "i", "n", "g">>),
            Column(<<"C", "o", "m", "m", "a", "n", "d", "L", "i", "n", "e">>, <<"s", "t", "r", "i", "n", "g">>),
            Column(<<"C", "o", "m", "p", "u", "t", "e", "r">>, <<"s", "t", "r", "i", "n", "g">>),
            Column(<<"U", "s", "e", "r">>, <<"s", "t", "r", "i", "n", "g">>)>>,
          <<<<"p", "r", "o", "c", "e", "s", "s">>, <<"s", "e", "c", "u", "r", "i", "t", "y">>, <<"m", "o", "n", "i", "t", "o", "r", "i", "n", "g">>>>),
        Table(<<"N", "e", "t", "w", "o", "r", "k", "C", "o", "n", "n", "e", "c", "t", "i", "o", "n">>,
          <<"N", "e", "t", "w", "o", "r", "k", " ", "c", "o", "n", "n", "e", "c", "t", "i", "o", "n", " ", "e", "v", "e", "n", "t", "s", " ", "i", "n", "c", "l", "u", "d", "i", "n", "g", " ", "i", "n", "b", "o", "u", "n", "d", " ", "a", "n", "d", " ", "o", "u", "t", "b", "o", "u", "n", "d", " ", "c", "o", "n", "n", "e", "c", "t", "i", "o", "n", "s">>,
          <<Column(<<"T", "i", "m", "e", "G", "e", "n", "e", "r", "a", "t", "e", "d">>, <<"d", "a", "t", "e", "t", "i", "m", "e">>),
            Column(<<"S", "o", "u", "r", "c", "e", "I", "P">>, <<"s", "t", "r", "i", "n", "g">>),
            Column(<<"R", "e", "m", "o", "t", "e", "I", "P">>, <<"s", "t", "r", "i", "n", "g">>),
            Column(<<"P", "o", "r", "t">>, <<"i", "n", "t">>),
            Column(<<"P", "r", "o", "t", "o", "c", "o", "l">>, <<"s", "t", "r", "i", "n", "g">>),
            Column(<<"C", "o", "m", "p", "u", "t", "e", "r">>, <<"s", "t", "r", "i", "n", "g">>)>>,
          <<<<"n", "e", "t", "w", "o", "r", "k">>, <<"s", "e", "c", "u", "r", "i", "t", "y">>, <<"c", "o", "n", "n", "e", "c", "t", "i", "o", "n", "s">>>>),
        Table(<<"T", "h", "r", "e", "a", "t", "I", "n", "t", "e", "l", "l", "i", "g", "e", "n", "c", "e", "I", "n", "d", "i", "c", "a", "t", "o", "r">>,
          <<"T", "h", "r", "e", "a", "t", " ", "i", "n", "t", "e", "l", "l", "i", "g", "e", "n", "c", "e", " ", "i", "n", "d", "i", "c", "a", "t", "o", "r", "s", " ", "i", "n", "c", "l", "u", "d", "i", "n", "g", " ", "m", "a", "l", "i", "c", "i", "o", "u", "s", " ", "I", "P", "s", ",", " ", "d", "o", "m", "a", "i", "n", "s", ",", " ", "a", "n", "d", " ", "h", "a", "s", "h", "e", "s">>,
          <<Column(<<"T", "i", "m", "e", "G", "e", "n", "e", "r", "a", "t", "e", "d">>, <<"d", "a", "t", "e", "t", "i", "m", "e">>),
            Column(<<"I", "P", "A", "d", "d", "r", "e", "s", "s">>, <<"s", "t", "r", "i", "n", "g">>),
            Column(<<"T", "h", "r", "e", "a", "t", "T", "y", "p", "e">>, <<"s", "t", "r", "i", "n", "g">>),
            Column(<<"T", "h", "r", "e", "a", "t", "S", "e", "v", "e", "r", "i", "t", "y">>, <<"s", "t", "r", "i", "n", "g">>),
            Column(<<"D", "e", "s", "c", "r", "i", "p", "t", "i", "o", "n">>, <<"s", "t", "r", "i", "n", "g">>)>>,
          <<<<"t", "h", "r", "e", "a", "t">>, <<"s", "e", "c", "u", "r", "i", "t", "y">>, <<"i", "n", "t", "e", "l", "l", "i", "g", "e", "n", "c", "e">>>>)>>]

EmptySchema == [database |-> <<"E", "m", "p", "t", "y">>, tables |-> <<>>]

\* a schema as the server builds it from the live database: description '', domain []
LiveSchema ==
    [database |-> <<"L", "i", "v", "e">>,
     tables |-> <<
        Table(<<"S", "i", "g", "n", "i", "n", "L", "o", "g", "s">>, <<>>,
              <<Column(<<"U", "s", "e", "r", "P", "r", "i", "n", "c", "i", "p", "a", "l", "N", "a", "m", "e">>, <<"s", "t", "r", "i", "n", "g">>),
                Column(<<"R", "e", "s", "u", "l", "t", "T", "y", "p", "e">>, <<"s", "t", "r", "i", "n", "g">>)>>, <<>>),
        Table(<<"H", "e", "a", "r", "t", "b", "e", "a", "t">>, <<>>,
              <<Column(<<"C", "o", "m", "p", "u", "t", "e", "r">>, <<"s", "t", "r", "i", "n", "g">>)>>, <<>>)>>]

\* a live schema one of whose columns came back without ColumnName or name
BrokenSchema ==
    [database |-> <<"L", "i", "v", "e">>,
     tables |-> <<
        Table(<<"S", "i", "g", "n", "i", "n", "L", "o", "g", "s">>, <<>>,
              <<Column(<<"U", "s", "e", "r", "P", "r", "i", "n", "c", "i", "p", "a", "l", "N", "a", "m", "e">>, <<"s", "t", "r", "i", "n", "g">>),
                Column(Undefined, <<"s", "t", "r", "i", "n", "g">>)>>, <<>>)>>]

DigitChar(n) == <<"0", "1", "2", "3", "4", "5", "6", "7", "8", "9">>[n + 1]

\* a schema in which more tables and columns match `user` than the caps admit
WideSchema ==
    [database |-> <<"W", "i", "d", "e">>,
     tables |-> [t \in 1..ManyTables |->
        Table(<<"U", "s", "e", "r">> \o <<DigitChar(t)>>, Undefined,
              [c \in 1..ColsPerTable |->
                    Column(<<"u", "s", "e", "r", "i", "d">> \o <<DigitChar(t), DigitChar(c)>>, <<"s", "t", "r", "i", "n", "g">>)],
              <<>>)]]

SchemaPool == {createDefaultSchema, EmptySchema, LiveSchema, BrokenSchema, WideSchema}

Words == {<<"u", "s", "e", "r">>,
          <<"L", "o", "g", "i", "n">>,
          <<"\"", "A", "c", "c", "o", "u", "n", "t", "\"">>,
          <<"i", "p">>,
          <<"L", "e", "v", "e", "l", "s">>,
          <<"x", "y">>}

\* words.join(' ')
RECURSIVE JoinWords(_)
JoinWords(ws) ==
    IF Len(ws) = 0 THEN <<>>
    ELSE IF Len(ws) = 1 THEN ws[1]
    ELSE ws[1] \o <<" ">> \o JoinWords(Tail(ws))

Questions == {JoinWords(ws) : ws \in StringsUpTo(Words, MaxWords)}

NotRefined ==
    [threw |-> FALSE, message |-> "", tables |-> <<>>, columns |-> <<>>,
     relevance |-> [num |-> 0, den |-> 2]]

InitSchema ==
    /\ nlq = <<>>
    /\ fullSchema = EmptySchema
    /\ refinedSchema = NotRefined
    /\ foundEntities = <<>>
    /\ spc = "idle"
    /\ RefineParked
    /\ EngineParked
    /\ SelectorParked
    /\ ServerParked

\* refineSchema is called with some question and schema
RefineSchemaCall ==
    /\ spc = "idle"
    /\ \E q \in Questions, schema \in SchemaPool :
        /\ nlq' = q
        /\ fullSchema' = schema
        /\ refinedSchema' = refineSchema(q, schema)
        /\ foundEntities' = extractEntities(q)
    /\ spc' = "done"
    /\ UNCHANGED <<refineVars, engineVars, selectorVars, serverVars, kustoVars>>

NextSchema == RefineSchemaCall

SpecSchema == InitSchema /\ [][NextSchema]_vars

----------------------------------------------------------------------------
(* Claims about refineSchema                                                *)

ColumnsOfSchema(schema) == UNION {Range(t.columns) : t \in Range(schema.tables)}

\* C5: every table refineSchema returns is a table of the schema it was given,
\* and every column it returns is a column of some table of that schema.
C5_NoFabricatedEntries ==
    (spc = "done" /\ ~refinedSchema.threw) =>
        /\ \A i \in 1..Len(refinedSchema.tables) :
                refinedSchema.tables[i] \in Range(fullSchema.tables)
        /\ \A j \in 1..Len(refinedSchema.columns) :
                refinedSchema.columns[j] \in ColumnsOfSchema(fullSchema)

\* C5 witness: a reduction that kept some tables and columns and dropped others.
C5_Witness ==
    /\ spc = "done"
    /\ ~refinedSchema.threw
    /\ Len(refinedSchema.tables) > 0
    /\ Len(refinedSchema.columns) > 0
    /\ Len(refinedSchema.tables) < Len(fullSchema.tables)
    /\ Len(refinedSchema.columns) < Len(AllColumns(fullSchema.tables))

\* C6: refineSchema returns at most 5 tables and at most 20 columns.
C6_AtMostFiveTablesTwentyColumns ==
    (spc = "done" /\ ~refinedSchema.threw) =>
        /\ Len(refinedSchema.tables) <= 5
        /\ Len(refinedSchema.columns) <= 20

\* C6 witness: more than 5 tables and more than 20 columns of the schema match
\* the question, and exactly 5 and 20 are returned.
C6_Witness ==
    /\ spc = "done"
    /\ ~refinedSchema.threw
    /\ Len(rankByRelevance(matchTables(extractEntities(nlq), fullSchema.tables))) > 5
    /\ Len(rankByRelevance(matchColumns(extractEntities(nlq), fullSchema.tables))) > 20
    /\ Len(refinedSchema.tables) = 5
    /\ Len(refinedSchema.columns) = 20

----------------------------------------------------------------------------
(* FewShotSelector                                                          *)

\* an Example (its tags are never read)
Example(q, k, database) == [nlq |-> q, kql |-> k, database |-> database]

\* initializeDefaultExamples
defaultExamples == <<
    Example(<<"S", "h", "o", "w", " ", "m", "e", " ", "a", "l", "l", " ", "s", "e", "c", "u", "r", "i", "t", "y", " ", "e", "v", "e", "n", "t", "s", " ", "f", "r", "o", "m", " ", "t", "h", "e", " ", "l", "a", "s", "t", " ", "h", "o", "u", "r">>,
            <<"S", "e", "c", "u", "r", "i", "t", "y", "E", "v", "e", "n", "t", " ", "|", " ", "w", "h", "e", "r", "e", " ", "T", "i", "m", "e", "G", "e", "n", "e", "r", "a", "t", "e", "d", " ", ">", " ", "a", "g", "o", "(", "1", "h", ")">>,
            <<"S", "e", "c", "u", "r", "i", "t", "y", "D", "a", "t", "a", "b", "a", "s", "e">>),
    Example(<<"F", "i", "n", "d", " ", "a", "l", "l", " ", "f", "a", "i", "l", "e", "d", " ", "a", "u", "t", "h", "e", "n", "t", "i", "c", "a", "t", "i", "o", "n", " ", "a", "t", "t", "e", "m", "p", "t", "s", " ", "g", "r", "o", "u", "p", "e", "d", " ", "b", "y", " ", "u", "s", "e", "r">>,
            <<"S", "e", "c", "u", "r", "i", "t", "y", "E", "v", "e", "n", "t", " ", "|", " ", "w", "h", "e", "r", "e", " ", "A", "c", "t", "i", "v", "i", "t", "y", " ", "=", "=", " ", "\"", "L", "o", "g", "o", "n", "\"", " ", "a", "n", "d", " ", "E", "v", "e", "n", "t", "R", "e", "s", "u", "l", "t", " ", "=", "=", " ", "\"", "F", "a", "i", "l", "u", "r", "e", "\"", " ", "|", " ", "s", "u", "m", "m", "a", "r", "i", "z", "e", " ", "c", "o", "u", "n", "t", "(", ")", " ", "b", "y", " ", "A", "c", "c", "o", "u", "n", "t">>,
            <<"S", "e", "c", "u", "r", "i", "t", "y", "D", "a", "t", "a", "b", "a", "s", "e">>),
    Example(<<"L", "i", "s", "t", " ", "a", "l", "l", " ", "t", "a", "b", "l", "e", "s", " ", "i", "n", " ", "t", "h", "e", " ", "d", "a", "t", "a", "b", "a", "s", "e">>,
            <<".", "s", "h", "o", "w", " ", "t", "a", "b", "l", "e", "s">>,
            <<"S", "e", "c", "u", "r", "i", "t", "y", "D", "a", "t", "a", "b", "a", "s", "e">>),
    Example(<<"S", "h", "o", "w", " ", "m", "e", " ", "e", "r", "r", "o", "r", " ", "l", "o", "g", "s", " ", "f", "r", "o", "m", " ", "t", "h", "e", " ", "l", "a", "s", "t", " ", "2", "4", " ", "h", "o", "u", "r", "s">>,
            <<"E", "v", "e", "n", "t", "L", "o", "g", " ", "|", " ", "w", "h", "e", "r", "e", " ", "L", "e", "v", "e", "l", " ", "=", "=", " ", "\"", "E", "r", "r", "o", "r", "\"", " ", "a", "n", "d", " ", "T", "i", "m", "e", "G", "e", "n", "e", "r", "a", "t", "e", "d", " ", ">", " ", "a", "g", "o", "(", "2", "4", "h", ")">>,
            <<"S", "e", "c", "u", "r", "i", "t", "y", "D", "a", "t", "a", "b", "a", "s", "e">>),
    Example(<<"C", "o", "u", "n", "t", " ", "t", "h", "e", " ", "n", "u", "m", "b", "e", "r", " ", "o", "f", " ", "u", "n", "i", "q", "u", "e", " ", "u", "s", "e", "r", "s", " ", "w", "h", "o", " ", "l", "o", "g", "g", "e", "d", " ", "i", "n", " ", "t", "o", "d", "a", "y">>,
            <<"S", "e", "c", "u", "r", "i", "t", "y", "E", "v", "e", "n", "t", " ", "|", " ", "w", "h", "e", "r", "e", " ", "A", "c", "t", "i", "v", "i", "t", "y", " ", "=", "=", " ", "\"", "L", "o", "g", "o", "n", "\"", " ", "a", "n", "d", " ", "T", "i", "m", "e", "G", "e", "n", "e", "r", "a", "t", "e", "d", " ", ">", " ", "s", "t", "a", "r", "t", "o", "f", "d", "a", "y", "(", "n", "o", "w", "(", ")", ")", " ", "|", " ", "s", "u", "m", "m", "a", "r", "i", "z", "e", " ", "d", "c", "o", "u", "n", "t", "(", "A", "c", "c", "o", "u", "n", "t", ")">>,
            <<"S", "e", "c", "u", "r", "i", "t", "y", "D", "a", "t", "a", "b", "a", "s", "e">>),
    Example(<<"F", "i", "n", "d", " ", "a", "l", "l", " ", "p", "r", "o", "c", "e", "s", "s", "e", "s", " ", "t", "h", "a", "t", " ", "w", "e", "r", "e", " ", "s", "t", "a", "r", "t", "e", "d", " ", "i", "n", " ", "t", "h", "e", " ", "l", "a", "s", "t", " ", "h", "o", "u", "r">>,
            <<"P", "r", "o", "c", "e", "s", "s", "E", "v", "e", "n", "t", " ", "|", " ", "w", "h", "e", "r", "e", " ", "E", "v", "e", "n", "t", "T", "y", "p", "e", " ", "=", "=", " ", "\"", "P", "r", "o", "c", "e", "s", "s", "S", "t", "a", "r", "t", "\"", " ", "a", "n", "d", " ", "T", "i", "m", "e", "G", "e", "n", "e", "r", "a", "t", "e", "d", " ", ">", " ", "a", "g", "o", "(", "1", "h", ")">>,
            <<"S", "e", "c", "u", "r", "i", "t", "y", "D", "a", "t", "a", "b", "a", "s", "e">>),
    Example(<<"S", "h", "o", "w", " ", "m", "e", " ", "n", "e", "t", "w", "o", "r", "k", " ", "c", "o", "n", "n", "e", "c", "t", "i", "o", "n", "s", " ", "t", "o", " ", "s", "u", "s", "p", "i", "c", "i", "o", "u", "s", " ", "I", "P", " ", "a", "d", "d", "r", "e", "s", "s", "e", "s">>,
            <<"N", "e", "t", "w", "o", "r", "k", "C", "o", "n", "n", "e", "c", "t", "i", "o", "n", " ", "|", " ", "w", "h", "e", "r", "e", " ", "R", "e", "m", "o", "t", "e", "I", "P", " ", "i", "n", " ", "(", "T", "h", "r", "e", "a", "t", "I", "n", "t", "e", "l", "l", "i", "g", "e", "n", "c", "e", "I", "n", "d", "i", "c", "a", "t", "o", "r", " ", "|", " ", "w", "h", "e", "r", "e", " ", "T", "h", "r", "e", "a", "t", "T", "y", "p", "e", " ", "=", "=", " ", "\"", "M", "a", "l", "i", "c", "i", "o", "u", "s", "I", "P", "\"", " ", "|", " ", "p", "r", "o", "j", "e", "c", "t", " ", "I", "P", "A", "d", "d", "r", "e", "s", "s", ")">>,
            <<"S", "e", "c", "u", "r", "i", "t", "y", "D", "a", "t", "a", "b", "a", "s", "e">>),
    Example(<<"G", "e", "t", " ", "t", "h", "e", " ", "t", "o", "p", " ", "1", "0", " ", "m", "o", "s", "t", " ", "a", "c", "t", "i", "v", "e", " ", "u", "s", "e", "r", "s", " ", "b", "y", " ", "l", "o", "g", "i", "n", " ", "c", "o", "u", "n", "t">>,
            <<"S", "e", "c", "u", "r", "i", "t", "y", "E", "v", "e", "n", "t", " ", "|", " ", "w", "h", "e", "r", "e", " ", "A", "c", "t", "i", "v", "i", "t", "y", " ", "=", "=", " ", "\"", "L", "o", "g", "o", "n", "\"", " ", "|", " ", "s", "u", "m", "m", "a", "r", "i", "z", "e", " ", "c", "o", "u", "n", "t", "(", ")", " ", "b", "y", " ", "A", "c", "c", "o", "u", "n", "t", " ", "|", " ", "t", "o", "p", " ", "1", "0", " ", "b", "y", " ", "c", "o", "u", "n", "t", "_">>,
            <<"S", "e", "c", "u", "r", "i", "t", "y", "D", "a", "t", "a", "b", "a", "s", "e">>)>>

\* the words of tokenize: after toLowerCase and replace(/[^\w\s]/g, ' '), the
\* pieces of split(/\s+/) are the maximal runs of \w; those longer than 2 stay
RECURSIVE TokensFrom(_, _)
TokenAt(s, i) ==
    (IF WordEnd(s, i) - i + 1 > 2 THEN <<Slice(s, i, WordEnd(s, i))>> ELSE <<>>)
    \o TokensFrom(s, WordEnd(s, i) + 1)

TokensFrom(s, from) ==
    IF {i \in from..Len(s) : IsWordChar(s[i])} = {} THEN <<>>
    ELSE TokenAt(s, MinOf({i \in from..Len(s) : IsWordChar(s[i])}))

tokenize(text) == TokensFrom(ToLowerCase(text), 1)

\* fractions stand for the scores: comparison and Math.min(1.0, x)
FractionGE(a, b) == a.num * b.den >= b.num * a.den
CapAtOne(x) == IF x.num > x.den THEN [num |-> 1, den |-> 1] ELSE x

\* intersection.length / union.length + exactMatchBoost, capped at 1.0
Similarity_uncapped(intersection, union, exactMatch) ==
    IF union = 0 THEN [num |-> 0, den |-> 1]
    ELSE IF exactMatch THEN [num |-> 10 * intersection + 3 * union, den |-> 10 * union]
    ELSE [num |-> intersection, den |-> union]
Similarity(intersection, union, exactMatch) ==
    IF union = 0 THEN [num |-> 0, den |-> 1]
    ELSE IF exactMatch
    THEN CapAtOne([num |-> 10 * intersection + 3 * union, den |-> 10 * union])
    ELSE CapAtOne([num |-> intersection, den |-> union])

\* computeSimilarity from the two word lists on
SimilarityOfWords(words1, words2, exactMatch) ==
    Similarity(CountOf(words1, LAMBDA w : w \in Range(words2)),
               Cardinality(Range(words1) \cup Range(words2)),
               exactMatch)

computeSimilarity(nlq1, nlq2) ==
    SimilarityOfWords(tokenize(nlq1), tokenize(nlq2),
                      \/ Includes(ToLowerCase(nlq1), ToLowerCase(nlq2))
                      \/ Includes(ToLowerCase(nlq2), ToLowerCase(nlq1)))

\* the stable sort((a, b) => b.score - a.score) of the scored examples
InsertBySimilarity(sorted, x) ==
    InsertAt(sorted, x, Cardinality({k \in 1..Len(sorted) : FractionGE(sorted[k].score, x.score)}))

RECURSIVE SortBySimilarity(_)
SortBySimilarity(s) ==
    IF Len(s) = 0 THEN <<>> ELSE InsertBySimilarity(SortBySimilarity(Front(s)), Last(s))

\* database ? this.examples.filter(ex => ex.database === database) : this.examples
candidateExamples_unfiltered(database, corpus) == corpus
candidateExamples(database, corpus) ==
    IF Truthy(database)
    THEN SelectSeq(corpus, LAMBDA ex : ex.database = database)
    ELSE corpus

scoredExamples(q, candidates) ==
    [c \in 1..Len(candidates) |->
        [example |-> candidates[c], score |-> computeSimilarity(q, candidates[c].nlq)]]

\* .slice(0, k).map(item => item.example)
TopExamples(sorted, k) ==
    [c \in 1..(IF Len(sorted) < k THEN Len(sorted) ELSE k) |-> sorted[c].example]

\* scoredExamples.sort((a, b) => b.score - a.score)
rankExamples(q, candidates) == SortBySimilarity(scoredExamples(q, candidates))

\* the value selectExamples returns, with the scores it ranked by
selectedFrom(ranked, k) ==
    [threw |-> FALSE, message |-> "",
     scores |-> [c \in 1..Len(ranked) |-> ranked[c].score],
     selected |-> TopExamples(ranked, k)]

\* selectExamples from the candidates on; tokenize throws on an nlq that is undefined
selectFrom(q, candidates, k) ==
    IF q = Undefined \/ \E c \in 1..Len(candidates) : candidates[c].nlq = Undefined
    THEN [threw |-> TRUE,
          message |-> "Cannot read properties of undefined (reading 'toLowerCase')",
          scores |-> <<>>,
          selected |-> <<>>]
    ELSE selectedFrom(rankExamples(q, candidates), k)

selectExamples(q, database, k, corpus) == selectFrom(q, candidateExamples(database, corpus), k)

\* this.examples.push(example)
addExample_deduplicates(corpus, example) ==
    IF example \in Range(corpus) THEN corpus ELSE Append(corpus, example)
addExample(corpus, example) == Append(corpus, example)

\* the array a call of selectExamples leaves in this.examples, the examples
\* by reference: map returns a new array, scoredExamples, and sort reorders
\* that one, also when candidateExamples is this.examples itself
examplesAfterSelect_sortsCandidates(q, database, refs, exampleAt) ==
    IF Truthy(database) \/ q = Undefined
          \/ \E c \in 1..Len(refs) : exampleAt[refs[c]].nlq = Undefined
    THEN refs
    ELSE TopExamples(SortBySimilarity([c \in 1..Len(refs) |->
                        [example |-> refs[c],
                         score |-> computeSimilarity(q, exampleAt[refs[c]].nlq)]]),
                     Len(refs))
examplesAfterSelect(q, database, refs, exampleAt) == refs

----------------------------------------------------------------------------
(* NL2KQLEngine                                                             *)

\* an optional property of an object: absent, or present with a value
None == <<>>
Some(v) == <<v>>

\* refinedSchema.tables.map(t => t.name), refinedSchema.columns.map(c => c.name)
reducedNames(refined) ==
    [tables |-> [t \in 1..Len(refined.tables) |-> refined.tables[t].name],
     columns |-> [c \in 1..Len(refined.columns) |-> refined.columns[c].name]]

\* examples.map(ex => ({ nlq: ex.nlq, kql: ex.kql }))
examplePairs(selected) ==
    [e \in 1..Len(selected) |-> [nlq |-> selected[e].nlq, kql |-> selected[e].kql]]

\* the arguments of this.llmClient.generateKQL
generationArgs_noExamples(q, refined, selected) ==
    [nlq |-> q, refinedSchema |-> reducedNames(refined), examples |-> <<>>]
generationArgs(q, refined, selected) ==
    [nlq |-> q, refinedSchema |-> reducedNames(refined), examples |-> examplePairs(selected)]

\* the number of examples convert asks for
TopExamplesK == 3

\* confidence: refinementResult.isValid ? 0.9 : 0.7
Confidence_alwaysHigh(isValid) == [num |-> 9, den |-> 10]
Confidence(isValid) == IF isValid THEN [num |-> 9, den |-> 10] ELSE [num |-> 7, den |-> 10]

\* the object convert returns at the end of the try block
successResponse(refinementResult, refined, selected, llmResponse, responseTime) ==
    [success |-> refinementResult.isValid,
     kql |-> Some(refinementResult.query),
     error |-> None,
     refinedSchema |-> Some(reducedNames(refined)),
     examplesUsed |-> Some(Len(selected)),
     refinements |-> Some(refinementResult.attempts),
     metadata |-> [tokensUsed |-> Some(llmResponse.tokensUsed),
                   responseTime |-> Some(responseTime),
                   confidence |-> Some(Confidence(refinementResult.isValid))]]

\* the object convert returns from the catch block
failureResponse_noTime(message, responseTime) ==
    [success |-> FALSE, kql |-> None, error |-> Some(message), refinedSchema |-> None,
     examplesUsed |-> None, refinements |-> None,
     metadata |-> [tokensUsed |-> None, responseTime |-> None, confidence |-> None]]
failureResponse(message, responseTime) ==
    [success |-> FALSE, kql |-> None, error |-> Some(message), refinedSchema |-> None,
     examplesUsed |-> None, refinements |-> None,
     metadata |-> [tokensUsed |-> None, responseTime |-> Some(responseTime),
                   confidence |-> None]]

\* this.defaultSchema = schema
updateSchema_ignored(current, schema) == current
updateSchema(current, schema) == schema

\* the { tables, columns } convert hands to refineQuery
querySchema(names) == SchemaOf(names.tables, names.columns)

----------------------------------------------------------------------------
(* convert as a state machine: the synchronous part up to the await, and    *)
(* the part that runs when the generation call settles                      *)

MaxClock == 1         \* largest value of the clock
MaxAdded == 1         \* examples added to the default ones

\* two callers of convert, numbered in the order in which they call
Invocations == {1, 2}

NoRequest == [query |-> <<>>, database |-> Undefined]

\* an invocation that has not started
IdleCall ==
    [pc |-> "idle", request |-> NoRequest, startTime |-> 0,
     refinedSchema |-> NotRefined, examples |-> <<>>,
     schemaRead |-> "none", corpusRead |-> <<>>,
     llmResponse |-> None, refinementResult |-> None,
     trace |-> <<>>, thrown |-> None, finishedAt |-> 0, result |-> None]

\* an invocation whose try block threw before the await, after the steps in trace
thrownCall(request, schema, corpus, time, steps, message) ==
    [pc |-> "done", request |-> request, startTime |-> time,
     refinedSchema |-> NotRefined, examples |-> <<>>,
     schemaRead |-> schema, corpusRead |-> corpus,
     llmResponse |-> None, refinementResult |-> None,
     trace |-> steps, thrown |-> Some(message), finishedAt |-> time,
     result |-> Some(failureResponse(message, time - time))]

\* an invocation suspended in await this.llmClient.generateKQL(...)
awaitingCall(request, schema, corpus, time, refined, selected) ==
    [pc |-> "awaiting", request |-> request, startTime |-> time,
     refinedSchema |-> refined, examples |-> selected,
     schemaRead |-> schema, corpusRead |-> corpus,
     llmResponse |-> None, refinementResult |-> None,
     trace |-> <<"refineSchema", "selectExamples", "generateKQL">>,
     thrown |-> None, finishedAt |-> 0, result |-> None]

\* convert, steps 1 to 3: the invocation after the synchronous part
startedCall(request, schema, corpus, time, refined, sel) ==
    IF refined.threw
    THEN thrownCall(request, schema, corpus, time, <<"refineSchema">>, refined.message)
    ELSE IF sel.threw
    THEN thrownCall(request, schema, corpus, time,
                    <<"refineSchema", "selectExamples">>, sel.message)
    ELSE awaitingCall(request, schema, corpus, time, refined, sel.selected)

\* convert, step 4 and the return, once the generation call has returned llmResponse
returnedCall(c, llmResponse, refinementResult, time) ==
    [c EXCEPT !.pc = "done",
              !.llmResponse = Some(llmResponse),
              !.refinementResult = Some(refinementResult),
              !.trace = c.trace \o <<"returned", "refineQuery">>,
              !.finishedAt = time,
              !.result = Some(successResponse(refinementResult, c.refinedSchema, c.examples,
                                              llmResponse, time - c.startTime))]

\* convert, the catch block, once the generation call has thrown
rejectedCall(c, message, time) ==
    [c EXCEPT !.pc = "done",
              !.trace = c.trace \o <<"failed">>,
              !.thrown = Some(message),
              !.finishedAt = time,
              !.result = Some(failureResponse(message, time - c.startTime))]

\* what the callers ask
Requests ==
    {[query |-> <<"f", "a", "i", "l", "e", "d", " ", "l", "o", "g", "i", "n", " ", "b", "y", " ", "u", "s", "e", "r">>, database |-> Undefined],
     [query |-> <<"S", "h", "o", "w", " ", "\"", "P", "o", "r", "t", "\"", " ", "o", "f", " ", "S", "e", "r", "v", "e", "r">>, database |-> <<"S", "e", "c", "u", "r", "i", "t", "y", "D", "a", "t", "a", "b", "a", "s", "e">>]}

\* the schema objects, by reference: the one the constructor creates and the
\* ones handed to updateSchema
SchemaAt == [default |-> createDefaultSchema, live |-> LiveSchema, broken |-> BrokenSchema]
SchemaRefs == DOMAIN SchemaAt

\* the example objects, by reference: the default ones, then the one handed
\* to addExample, by a caller that left the nlq out
ExampleAt ==
    defaultExamples
    \o <<Example(Undefined, <<"H", "e", "a", "r", "t", "b", "e", "a", "t", " ", "|", " ", "c", "o", "u", "n", "t">>, <<"S", "e", "c", "u", "r", "i", "t", "y", "D", "a", "t", "a", "b", "a", "s", "e">>)>>

defaultExampleRefs == [k \in 1..Len(defaultExamples) |-> k]
ExamplePool == (Len(defaultExamples) + 1)..Len(ExampleAt)

\* the Example objects an array of references holds
corpusOf(refs) == [k \in 1..Len(refs) |-> ExampleAt[refs[k]]]

\* what the generation call returns: a clean query, one a repair completes,
\* one no repair completes
LLMResponses ==
    {[content |-> <<"S", "e", "c", "u", "r", "i", "t", "y", "E", "v", "e", "n", "t", " ", "|", " ", "w", "h", "e", "r", "e", " ", "A", "c", "c", "o", "u", "n", "t", " ", "=", "=", " ", "\"", "x", "\"">>, tokensUsed |-> 42],
     [content |-> <<"S", "i", "g", "n", "i", "n", "L", "o", "g", "s", " ", "|", " ", "w", "h", "e", "r", "e", " ", "U", "s", "e", "r", "P", "r", "i", "n", "c", "i", "p", "a", "l", "N", "a", "m", "e", " ", "c", "o", "n", "t", "a", "i", "n", "s", " ", "\"", "x">>, tokensUsed |-> 42],
     [content |-> <<"S", "e", "c", "u", "r", "i", "t", "y", "E", "v", "e", "n", "t", " ", "|", " ", "c", "o", "u", "n", "t", ")">>, tokensUsed |-> 42],
     [content |-> <<>>, tokensUsed |-> 7]}

\* the messages of the errors generateKQL throws
LLMFailures ==
    {"Azure OpenAI client not initialized",
     "Failed to generate KQL: Connection error."}

\* the questions, example lists and reduced name lists the invocations meet
QuestionsAsked == {r.query : r \in Requests}

RECURSIVE CorporaWith(_)
CorporaWith(n) ==
    IF n = 0 THEN {defaultExampleRefs}
    ELSE CorporaWith(n - 1)
         \cup {addExample(c, e) : c \in CorporaWith(n - 1), e \in ExamplePool}

Corpora == CorporaWith(MaxAdded)

\* refineSchema, selectExamples and refineQuery are functions of their
\* arguments: their values on the arguments the invocations meet, computed once
refineSchemaOn ==
    [q \in QuestionsAsked, ref \in SchemaRefs |-> refineSchema(q, SchemaAt[ref])]

selectExamplesOn ==
    [r \in Requests, refs \in Corpora |->
        selectExamples(r.query, r.database, TopExamplesK, corpusOf(refs))]

NamesMet ==
    {reducedNames(refineSchemaOn[q, ref]) : q \in QuestionsAsked, ref \in SchemaRefs}

refineQueryOn ==
    [r \in LLMResponses, names \in NamesMet |-> refineQuery(r.content, querySchema(names))]

InitEngine ==
    /\ defaultSchema = "default"
    /\ examples = defaultExampleRefs
    /\ now = 0
    /\ calls = [i \in Invocations |-> IdleCall]
    /\ llmLog = <<>>
    /\ installed = "default"
    /\ RefineParked
    /\ SchemaParked
    /\ SelectorParked
    /\ ServerParked

\* convert, the part before the await, for invocation i reading the schema
\* `schema`: schema reduction, example selection and the generation call are
\* made without interruption; an error thrown on the way is caught
ConvertSync(i, request, schema) ==
    \E refined \in {refineSchemaOn[request.query, schema]} :
        \E sel \in {selectExamplesOn[request, examples]} :
            /\ calls' = [calls EXCEPT ![i] =
                            startedCall(request, schema, examples, now, refined, sel)]
            /\ llmLog' = IF refined.threw \/ sel.threw THEN llmLog
                         ELSE Append(llmLog,
                                     [call |-> i,
                                      args |-> generationArgs(request.query, refined,
                                                              sel.selected)])
            /\ examples' = IF refined.threw THEN examples
                           ELSE examplesAfterSelect(request.query, request.database,
                                                    examples, ExampleAt)

\* convert is called
ConvertStart(i) ==
    /\ calls[i].pc = "idle"
    /\ \A j \in Invocations : j < i => calls[j].pc # "idle"
    /\ \E request \in Requests : ConvertSync(i, request, defaultSchema)
    /\ UNCHANGED <<defaultSchema, now, installed, refineVars, schemaVars, selectorVars, serverVars, kustoVars>>

\* the generation call of invocation i returns: the query is refined and the
\* result returned
GenerationReturns(i) ==
    /\ calls[i].pc = "awaiting"
    /\ \E llmResponse \in LLMResponses :
        calls' = [calls EXCEPT ![i] =
                    returnedCall(calls[i], llmResponse,
                                 refineQueryOn[llmResponse, reducedNames(calls[i].refinedSchema)],
                                 now)]
    /\ UNCHANGED <<defaultSchema, examples, now, llmLog, installed, refineVars, schemaVars, selectorVars, serverVars, kustoVars>>

\* the generation call of invocation i throws: the catch block returns
GenerationFails(i) ==
    /\ calls[i].pc = "awaiting"
    /\ \E message \in LLMFailures :
        calls' = [calls EXCEPT ![i] = rejectedCall(calls[i], message, now)]
    /\ UNCHANGED <<defaultSchema, examples, now, llmLog, installed, refineVars, schemaVars, selectorVars, serverVars, kustoVars>>

UpdateSchema ==
    /\ \E schema \in SchemaRefs :
        /\ defaultSchema' = updateSchema(defaultSchema, schema)
        /\ installed' = schema
    /\ UNCHANGED <<examples, now, calls, llmLog, refineVars, schemaVars, selectorVars, serverVars, kustoVars>>

AddExample ==
    /\ Len(examples) < Len(defaultExampleRefs) + MaxAdded
    /\ \E example \in ExamplePool : examples' = addExample(examples, example)
    /\ UNCHANGED <<defaultSchema, now, calls, llmLog, installed, refineVars, schemaVars, selectorVars, serverVars, kustoVars>>

\* time passes
Tick ==
    /\ now < MaxClock
    /\ now' = now + 1
    /\ UNCHANGED <<defaultSchema, examples, calls, llmLog, installed, refineVars, schemaVars, selectorVars, serverVars, kustoVars>>

NextEngine ==
    \/ \E i \in Invocations : ConvertStart(i)
    \/ \E i \in Invocations : GenerationReturns(i)
    \/ \E i \in Invocations : GenerationFails(i)
    \/ UpdateSchema
    \/ AddExample
    \/ Tick

SpecEngine == InitEngine /\ [][NextEngine]_vars

----------------------------------------------------------------------------
(* Claims about convert                                                     *)

\* C7: when schema reduction, example selection or the generation call throws,
\* convert still returns: the result has success = false, the message of the
\* error thrown, the elapsed time, and none of kql, refinedSchema, examplesUsed,
\* refinements, tokensUsed, confidence.
C7_ThrowsBecomeFailureResults ==
    \A i \in Invocations :
        calls[i].thrown # None =>
            /\ calls[i].pc = "done"
            /\ calls[i].result # None
            /\ calls[i].result[1].success = FALSE
            /\ calls[i].result[1].error = calls[i].thrown
            /\ calls[i].result[1].metadata.responseTime
                    = Some(calls[i].finishedAt - calls[i].startTime)
            /\ calls[i].result[1].kql = None
            /\ calls[i].result[1].refinedSchema = None
            /\ calls[i].result[1].examplesUsed = None
            /\ calls[i].result[1].refinements = None
            /\ calls[i].result[1].metadata.tokensUsed = None
            /\ calls[i].result[1].metadata.confidence = None

\* C7 witness: one invocation ended by an error thrown in schema reduction,
\* another by an error of the generation call after time has passed.
C7_Witness ==
    /\ calls[1].pc = "done"
    /\ calls[1].thrown # None
    /\ calls[1].trace = <<"refineSchema">>
    /\ calls[2].pc = "done"
    /\ calls[2].thrown = Some("Failed to generate KQL: Connection error.")
    /\ calls[2].finishedAt > calls[2].startTime

\* C8: every result of convert with success = false carries an error message
\* (the response has no field for validation errors), the result returned
\* when the repair attempts are exhausted included.
C8_FailureResultsSayWhatWentWrong ==
    \A i \in Invocations :
        (calls[i].pc = "done" /\ ~calls[i].result[1].success) =>
            calls[i].result[1].error # None

\* C9: the schema in use is always the one last handed to updateSchema; a
\* convert that starts reduces against it; the lists of an invocation in flight
\* do not change, and its result carries the lists reduced from the schema it
\* read at its start, whatever updateSchema did meanwhile.
C9_SchemaSwapIsAtomic ==
    /\ [](defaultSchema = installed)
    /\ [][\A i \in Invocations :
            (calls[i].pc = "idle" /\ calls'[i].pc # "idle") =>
                /\ calls'[i].schemaRead = installed
                /\ (calls'[i].pc = "awaiting" =>
                        calls'[i].refinedSchema
                            = refineSchemaOn[calls'[i].request.query, installed])]_vars
    /\ [][\A i \in Invocations :
            calls[i].pc = "awaiting" =>
                calls'[i].refinedSchema = calls[i].refinedSchema]_vars
    /\ [](\A i \in Invocations :
            (calls[i].pc = "done" /\ calls[i].thrown = None) =>
                calls[i].result[1].refinedSchema
                    = Some(reducedNames(refineSchemaOn[calls[i].request.query,
                                                       calls[i].schemaRead])))

\* C9 witness: an invocation that started under the default schema has
\* returned its lists after the live schema was installed, and the lists are
\* not the ones the live schema gives.
C9_Witness ==
    /\ calls[1].pc = "done"
    /\ calls[1].thrown = None
    /\ calls[1].schemaRead = "default"
    /\ defaultSchema = "live"
    /\ calls[1].result[1].refinedSchema
            # Some(reducedNames(refineSchemaOn[calls[1].request.query, "live"]))

\* the calls of invocation i that reached the generation collaborator
CallsOf(i) == SelectSeq(llmLog, LAMBDA e : e.call = i)

\* C10: the generation collaborator is called at most once per invocation, a
\* failed call included; the call comes after schema reduction and example
\* selection and carries the question, the reduced name lists and the selected
\* examples; refineQuery runs only after the call has returned.
C10_GenerationCalledOnceAfterPreparation ==
    \A i \in Invocations :
        /\ Len(CallsOf(i)) <= 1
        /\ (Len(CallsOf(i)) = 1) = ("generateKQL" \in Range(calls[i].trace))
        /\ Len(CallsOf(i)) = 1 =>
            /\ SubSeq(calls[i].trace, 1, 3) = <<"refineSchema", "selectExamples", "generateKQL">>
            /\ CallsOf(i)[1].args.nlq = calls[i].request.query
            /\ CallsOf(i)[1].args.refinedSchema
                    = reducedNames(refineSchemaOn[calls[i].request.query, calls[i].schemaRead])
            /\ CallsOf(i)[1].args.examples
                    = examplePairs(selectExamplesOn[calls[i].request,
                                                    calls[i].corpusRead].selected)
        /\ "refineQuery" \in Range(calls[i].trace) =>
            calls[i].trace = <<"refineSchema", "selectExamples", "generateKQL",
                               "returned", "refineQuery">>
        /\ "failed" \in Range(calls[i].trace) =>
            /\ calls[i].trace = <<"refineSchema", "selectExamples", "generateKQL", "failed">>
            /\ calls[i].pc = "done"

\* C10 witness: one invocation whose generation call failed and was not
\* repeated, another whose call returned and whose query was then refined, with
\* examples in the call.
C10_Witness ==
    /\ calls[1].pc = "done"
    /\ "failed" \in Range(calls[1].trace)
    /\ Len(CallsOf(1)) = 1
    /\ calls[2].pc = "done"
    /\ "refineQuery" \in Range(calls[2].trace)
    /\ Len(CallsOf(2)) = 1
    /\ Len(CallsOf(2)[1].args.examples) = 3

\* C11: a step of convert (its synchronous part, or the part that runs when
\* the generation call settles) leaves the schema in use and the example
\* corpus, contents and order, as they were; the schema in use changes only in
\* a step of updateSchema, to the schema handed over, and the corpus only in a
\* step of addExample, by one entry at its end.
C11_ConvertLeavesSchemaAndCorpus ==
    [][/\ (calls' # calls \/ llmLog' # llmLog) =>
            (defaultSchema' = defaultSchema /\ examples' = examples)
       /\ defaultSchema' # defaultSchema =>
            (defaultSchema' = installed' /\ calls' = calls /\ examples' = examples)
       /\ examples' # examples =>
            /\ \E example \in ExamplePool : examples' = Append(examples, example)
            /\ calls' = calls
            /\ defaultSchema' = defaultSchema]_vars

\* C11 witness: an invocation without database, so that the candidates are the
\* corpus itself, has ranked the examples in another order than the corpus
\* holds them and has returned; the corpus is the default one, in its order.
C11_Witness ==
    /\ calls[1].pc = "done"
    /\ calls[1].thrown = None
    /\ ~Truthy(calls[1].request.database)
    /\ Len(calls[1].examples) = 3
    /\ calls[1].examples # SubSeq(corpusOf(examples), 1, 3)
    /\ examples = defaultExampleRefs
    /\ defaultSchema = "default"

----------------------------------------------------------------------------
(* The FewShotSelector on its own: calls of selectExamples and addExample   *)

MaxAppended == 2      \* calls of addExample
MaxK == 3             \* largest k asked for

\* the example objects, by reference: the default ones, then one more that a
\* caller hands to addExample, its query text with an unmatched parenthesis
SelectorExampleAt ==
    defaultExamples
    \o <<Example(<<"S", "h", "o", "w", " ", "m", "e", " ", "u", "s", "e", "r", "s">>,
                 <<"U", "s", "e", "r", "s", " ", "|", " ", "t", "a", "k", "e", " ", "1", "0", ")">>,
                 <<"O", "t", "h", "e", "r", "D", "a", "t", "a", "b", "a", "s", "e">>)>>

\* the references handed to addExample: a default example once more, and the
\* other one
SelectorPool == {3, Len(defaultExamples) + 1}

SelectorQuestions ==
    {<<"f", "a", "i", "l", "e", "d", " ", "l", "o", "g", "i", "n", " ", "b", "y", " ", "u", "s", "e", "r">>,
     <<"L", "i", "s", "t", " ", "a", "l", "l", " ", "t", "a", "b", "l", "e", "s", " ", "i", "n", " ", "t", "h", "e", " ", "d", "a", "t", "a", "b", "a", "s", "e">>,
     <<"s", "h", "o", "w", " ", "u", "s", "e", "r", "s">>,
     <<>>}

\* the database argument: left out, empty, the database of the default
\* examples, the one of the added examples, and one no example has
SelectorDatabases ==
    {Undefined, <<>>, <<"S", "e", "c", "u", "r", "i", "t", "y", "D", "a", "t", "a", "b", "a", "s", "e">>, <<"O", "t", "h", "e", "r", "D", "a", "t", "a", "b", "a", "s", "e">>, <<"U", "n", "k", "n", "o", "w", "n", "D", "a", "t", "a", "b", "a", "s", "e">>}

SelectorCorpora == {defaultExampleRefs \o s : s \in StringsUpTo(SelectorPool, MaxAppended)}

\* the Example objects an array of references holds
selectorCorpusOf(refs) == [k \in 1..Len(refs) |-> SelectorExampleAt[refs[k]]]

\* selectExamples is a function of its arguments and of this.examples: its
\* values on the arguments tried, computed once
selectorOn ==
    [q \in SelectorQuestions, database \in SelectorDatabases, k \in 0..MaxK,
     refs \in SelectorCorpora |-> selectExamples(q, database, k, selectorCorpusOf(refs))]

NoCall == [op |-> "none"]

\* a call of selectExamples on the corpus refs, and what it returned
selectCall(q, database, k, refs, returned) ==
    [op |-> "selectExamples", nlq |-> q, database |-> database, k |-> k, corpus |-> refs,
     threw |-> returned.threw, scores |-> returned.scores, value |-> returned.selected]

InitSelector ==
    /\ fsExamples = defaultExampleRefs
    /\ added = 0
    /\ fsCall = NoCall
    /\ RefineParked
    /\ SchemaParked
    /\ EngineParked
    /\ ServerParked

SelectExamplesCall ==
    /\ \E q \in SelectorQuestions, database \in SelectorDatabases, k \in 0..MaxK :
        /\ fsCall' = selectCall(q, database, k, fsExamples,
                              selectorOn[q, database, k, fsExamples])
        /\ fsExamples' = examplesAfterSelect(q, database, fsExamples, SelectorExampleAt)
    /\ UNCHANGED <<added, refineVars, schemaVars, engineVars, serverVars, kustoVars>>

AddExampleCall ==
    /\ added < MaxAppended
    /\ \E example \in SelectorPool :
        /\ fsExamples' = addExample(fsExamples, example)
        /\ fsCall' = [op |-> "addExample", example |-> example]
    /\ added' = added + 1
    /\ UNCHANGED <<refineVars, schemaVars, engineVars, serverVars, kustoVars>>

NextSelector == SelectExamplesCall \/ AddExampleCall

SpecSelector == InitSelector /\ [][NextSelector]_vars

----------------------------------------------------------------------------
(* Claims about the FewShotSelector                                         *)

\* the positions of the corpus whose example is eligible
Eligible(database, refs) ==
    {c \in 1..Len(refs) :
        ~Truthy(database) \/ SelectorExampleAt[refs[c]].database = database}

\* the score of the example at position c, and the order the claim asks for:
\* higher scores first, equal scores in corpus order
similarityOn ==
    [q \in SelectorQuestions, ref \in 1..Len(SelectorExampleAt) |->
        computeSimilarity(q, SelectorExampleAt[ref].nlq)]

ScoreAt(q, refs, c) == similarityOn[q, refs[c]]

ComesBefore(q, refs, d, c) ==
    \/ ~FractionGE(ScoreAt(q, refs, c), ScoreAt(q, refs, d))
    \/ /\ FractionGE(ScoreAt(q, refs, c), ScoreAt(q, refs, d))
       /\ FractionGE(ScoreAt(q, refs, d), ScoreAt(q, refs, c))
       /\ d < c

PlaceOf(q, database, refs, c) ==
    1 + Cardinality({d \in Eligible(database, refs) : ComesBefore(q, refs, d, c)})

SmallerOf(a, b) == IF a < b THEN a ELSE b

\* C12: selectExamples(question, databaseId, k) returns the first min(k, n) of
\* the n eligible examples in the order of non-increasing similarity, equal
\* scores in corpus order; the examples of databaseId are eligible when one is
\* given, all examples when it is left out (undefined or empty); with no
\* eligible example the value is the empty list and nothing is thrown.
C12_SelectsTopKOfEligibleInOrder ==
    fsCall.op = "selectExamples" =>
        /\ ~fsCall.threw
        /\ Len(fsCall.value)
              = SmallerOf(fsCall.k, Cardinality(Eligible(fsCall.database, fsCall.corpus)))
        /\ \A c \in Eligible(fsCall.database, fsCall.corpus) :
              PlaceOf(fsCall.nlq, fsCall.database, fsCall.corpus, c) <= Len(fsCall.value) =>
                  fsCall.value[PlaceOf(fsCall.nlq, fsCall.database, fsCall.corpus, c)]
                      = SelectorExampleAt[fsCall.corpus[c]]

\* C12 witness: a call with a database given, more eligible examples than k,
\* and eligible examples of equal, positive score, of which the first two of
\* the corpus are returned.
C12_Witness ==
    /\ fsCall.op = "selectExamples"
    /\ fsCall.database = <<"S", "e", "c", "u", "r", "i", "t", "y", "D", "a", "t", "a", "b", "a", "s", "e">>
    /\ fsCall.k = 2
    /\ Cardinality(Eligible(fsCall.database, fsCall.corpus)) > 2
    /\ Cardinality(Eligible(fsCall.database, fsCall.corpus)) < Len(fsCall.corpus)
    /\ FractionGE(fsCall.scores[3], fsCall.scores[1])
    /\ fsCall.scores[1].num > 0
    /\ fsCall.value = <<SelectorExampleAt[1], SelectorExampleAt[2]>>

\* C12 witness of fewer eligible examples than k.
C12_WitnessFewEligible ==
    /\ fsCall.op = "selectExamples"
    /\ fsCall.database = <<"O", "t", "h", "e", "r", "D", "a", "t", "a", "b", "a", "s", "e">>
    /\ fsCall.k = 3
    /\ Len(fsCall.value) = 2

\* C12 witness of the empty case: no example has the database asked for.
C12_WitnessNoneEligible ==
    /\ fsCall.op = "selectExamples"
    /\ fsCall.database = <<"U", "n", "k", "n", "o", "w", "n", "D", "a", "t", "a", "b", "a", "s", "e">>
    /\ fsCall.k > 0
    /\ fsCall.value = <<>>

----------------------------------------------------------------------------
(* computeSimilarity on its own, on short texts                             *)

MaxSimWords == 2      \* longest text, in words

SimilarityWords == {<<"u", "s", "e", "r">>, <<"L", "o", "g", "i", "n", ",">>, <<"b", "y">>}

SimilarityTexts == {JoinWords(ws) : ws \in StringsUpTo(SimilarityWords, MaxSimWords)}

\* a selector just constructed, and one call of computeSimilarity
ComputeSimilarityCall ==
    /\ fsCall = NoCall
    /\ \E nlq1 \in SimilarityTexts, nlq2 \in SimilarityTexts :
        fsCall' = [op |-> "computeSimilarity", nlq1 |-> nlq1, nlq2 |-> nlq2,
                   value |-> computeSimilarity(nlq1, nlq2)]
    /\ UNCHANGED <<fsExamples, added, refineVars, schemaVars, engineVars, serverVars, kustoVars>>

NextSimilarity == ComputeSimilarityCall

SpecSimilarity == InitSelector /\ [][NextSimilarity]_vars

\* T(x): the set of the lowercased word tokens of x longer than 2 characters
TokenSet(x) == Range(tokenize(x))

\* is either lowercased string a substring of the other
EitherContains(a, b) ==
    \/ Includes(ToLowerCase(a), ToLowerCase(b))
    \/ Includes(ToLowerCase(b), ToLowerCase(a))

\* min(1, i / u + bonus) with bonus 0.3 or 0, and 0 when u = 0, as a fraction
ClaimedScore(i, u, bonus) ==
    IF u = 0 THEN [num |-> 0, den |-> 1]
    ELSE IF (IF bonus THEN 10 * i + 3 * u ELSE 10 * i) > 10 * u THEN [num |-> 1, den |-> 1]
    ELSE [num |-> IF bonus THEN 10 * i + 3 * u ELSE 10 * i, den |-> 10 * u]

FractionEQ(a, b) == a.num * b.den = b.num * a.den

\* C13: computeSimilarity(a, b) = min(1, |T(a) \cap T(b)| / |T(a) \cup T(b)| + bonus),
\* bonus 0.3 when either lowercased string contains the other and 0 otherwise,
\* and 0 when T(a) \cup T(b) is empty, also when a word is repeated in a or b.
C13_SimilarityIsJaccardOfTokenSets ==
    fsCall.op = "computeSimilarity" =>
        FractionEQ(fsCall.value,
                   ClaimedScore(Cardinality(TokenSet(fsCall.nlq1) \cap TokenSet(fsCall.nlq2)),
                                Cardinality(TokenSet(fsCall.nlq1) \cup TokenSet(fsCall.nlq2)),
                                EitherContains(fsCall.nlq1, fsCall.nlq2)))

\* C14: every score selectExamples ranks by, for every question and every
\* example of the corpus, is at least 0 and at most 1.
C14_ScoresBetweenZeroAndOne ==
    fsCall.op = "selectExamples" =>
        \A c \in 1..Len(fsCall.scores) :
            /\ fsCall.scores[c].den > 0
            /\ fsCall.scores[c].num >= 0
            /\ fsCall.scores[c].num <= fsCall.scores[c].den

\* C14 witness: the question is the text of an example, whose score is capped
\* at 1, and other examples score strictly between 0 and 1 or score 0.
C14_Witness ==
    /\ fsCall.op = "selectExamples"
    /\ fsCall.nlq = SelectorExampleAt[3].nlq
    /\ Len(fsCall.scores) = Len(fsCall.corpus)
    /\ fsCall.scores[1] = [num |-> 1, den |-> 1]
    /\ \E c \in 1..Len(fsCall.scores) :
            fsCall.scores[c].num > 0 /\ fsCall.scores[c].num < fsCall.scores[c].den
    /\ \E c \in 1..Len(fsCall.scores) : fsCall.scores[c].num = 0

\* C15: a call of addExample makes the example the last entry of the corpus:
\* the length grows by one, also for an example the corpus holds already and
\* for one whose query text is not valid, and the entries before keep their
\* positions; no step of any operation removes or moves an entry.
C15_AddExampleAppends ==
    /\ [](Len(fsExamples) = Len(defaultExampleRefs) + added)
    /\ [][added' = added + 1 =>
            /\ fsCall'.op = "addExample"
            /\ fsExamples' = Append(fsExamples, fsCall'.example)
            /\ Len(fsExamples') = Len(fsExamples) + 1]_vars
    /\ [][/\ Len(fsExamples') >= Len(fsExamples)
          /\ SubSeq(fsExamples', 1, Len(fsExamples)) = fsExamples]_vars

\* C15 witness: the third default example was added once more, then the
\* example with the unmatched parenthesis; both are stored, in this order,
\* after the eight default ones.
C15_Witness ==
    /\ added = 2
    /\ fsExamples = defaultExampleRefs \o <<3, Len(defaultExamples) + 1>>
    /\ Cardinality(Range(fsExamples)) < Len(fsExamples)
    /\ validateSyntax(SelectorExampleAt[fsExamples[Len(fsExamples)]].kql) # <<>>

----------------------------------------------------------------------------
(* Claims about the entities and the relevance of refineSchema              *)

\* C16: the entities extracted from a question are free of duplicates, and
\* each is a lowercase string, whether it is a domain term found, a quoted
\* substring without its quotes, or a capitalized word longer than 3.
C16_EntitiesLowercaseNoDuplicates ==
    spc = "done" =>
        /\ Cardinality(Range(foundEntities)) = Len(foundEntities)
        /\ \A e \in 1..Len(foundEntities) : foundEntities[e] = ToLowerCase(foundEntities[e])

\* the highest score of a table, and of a column, of the schema
HighestTableScore(q, schema) ==
    MaxOf({TableScore(extractEntities(q), schema.tables[t]) : t \in 1..Len(schema.tables)})

HighestColumnScore(q, schema) ==
    MaxOf({ColumnScore(extractEntities(q), AllColumns(schema.tables)[c]) :
              c \in 1..Len(AllColumns(schema.tables))})

\* C17: the relevance of the RefinedSchema is the average of the highest table
\* score and the highest column score, and it is 0 when the refined table list
\* or the refined column list is empty, also when the other list is not.
C17_RelevanceIsAverageOrZero ==
    (spc = "done" /\ ~refinedSchema.threw) =>
        IF refinedSchema.tables = <<>> \/ refinedSchema.columns = <<>>
        THEN refinedSchema.relevance.num = 0
        ELSE refinedSchema.relevance.num * 2
                = (HighestTableScore(nlq, fullSchema) + HighestColumnScore(nlq, fullSchema))
                  * refinedSchema.relevance.den

----------------------------------------------------------------------------
(* Claims about the repairs of refineQuery                                  *)

\* the closing characters a text lacks
MissingClosers(q, open, close) ==
    IF CountChar(q, open) > CountChar(q, close)
    THEN CountChar(q, open) - CountChar(q, close) ELSE 0

\* the checker reports something on q, and only parentheses or brackets that
\* are opened and not closed
OnlyMissingClosers(q) ==
    /\ validateSyntax(q) # <<>>
    /\ Range(validateSyntax(q)) \subseteq {Err("Unbalanced parentheses"), Err("Unbalanced brackets")}
    /\ CountChar(q, "(") >= CountChar(q, ")")
    /\ CountChar(q, "[") >= CountChar(q, "]")

\* C18: when the only defect of the (trimmed) text is n >= 1 missing closing
\* parentheses or brackets, refineQuery returns the text with exactly the n
\* missing closing characters appended and nothing else changed, isValid =
\* true, attempts = 1 and one fix.
C18_MissingClosersAppended ==
    (rpc = "done" /\ OnlyMissingClosers(Trim(kql))) =>
        /\ result.query = Trim(kql) \o Repeat(")", MissingClosers(Trim(kql), "(", ")"))
                                    \o Repeat("]", MissingClosers(Trim(kql), "[", "]"))
        /\ result.isValid
        /\ result.attempts = 1
        /\ Len(result.fixes) = 1

\* C18 witness: the query that lacks the parenthesis of ago(1h has been repaired.
C18_Witness ==
    /\ rpc = "done"
    /\ kql = <<"S", "e", "c", "u", "r", "i", "t", "y", "E", "v", "e", "n", "t", " ", "|", " ", "w", "h", "e", "r", "e", " ", "T", "i", "m", "e", "G", "e", "n", "e", "r", "a", "t", "e", "d", " ", ">", " ", "a", "g", "o", "(", "1", "h">>
    /\ result.query = kql \o <<")">>
    /\ result.isValid
    /\ result.attempts = 1

\* C18 witness with two parentheses missing, and one with a bracket too.
C18_WitnessSeveral ==
    /\ rpc = "done"
    /\ OnlyMissingClosers(Trim(kql))
    /\ MissingClosers(Trim(kql), "(", ")") + MissingClosers(Trim(kql), "[", "]") >= 2
    /\ result.attempts = 1

\* the checker reports the strict tokens on q, and nothing else
OnlyStrictTokens(q) == validateSyntax(q) = <<Err("Use == or != instead of === or !==")>>

\* the last position up to i of q that holds no '=' (0 if there is none)
LastNonEquals(q, i) == MaxOf({0} \cup {j \in 1..i : q[j] # "="})

\* the positions of q that stay when every strict token is collapsed: of a
\* run of '=' the first two, or the first one after a '!'
KeptPositions(q) ==
    {i \in 1..Len(q) :
        \/ q[i] # "="
        \/ i - LastNonEquals(q, i) = 1
        \/ /\ i - LastNonEquals(q, i) = 2
           /\ ~(LastNonEquals(q, i) > 0 /\ q[LastNonEquals(q, i)] = "!")}

Collapsed(q) ==
    [k \in 1..Cardinality(KeptPositions(q)) |->
        q[CHOOSE i \in KeptPositions(q) :
              Cardinality({j \in KeptPositions(q) : j <= i}) = k]]

\* C19: when the only defect of the (trimmed) text is the presence of
\* === or !==, runs of '=' of any length included, refineQuery returns
\* isValid = true and a text without === and !==, in which each strict token
\* is collapsed to == or != and every other character is unchanged.
C19_StrictTokensCollapsed ==
    (rpc = "done" /\ OnlyStrictTokens(Trim(kql))) =>
        /\ result.isValid
        /\ ~Includes(result.query, <<"=", "=", "=">>)
        /\ ~Includes(result.query, <<"!", "=", "=">>)
        /\ result.query = Collapsed(Trim(kql))

\* C20: when refineQuery returns isValid = true, the checker reports nothing
\* on the returned text, and refineQuery on the returned text, with any schema
\* argument, returns that text unchanged with isValid = true, attempts = 0,
\* no fixes and no errors.
C20_RepairIdempotentAtFixedPoint ==
    (rpc = "done" /\ result.isValid) =>
        /\ validateSyntax(result.query) = <<>>
        /\ \A s \in SchemaInputs :
              refineQuery(result.query, s)
                  = [query |-> result.query, isValid |-> TRUE, errors |-> <<>>,
                     fixes |-> <<>>, attempts |-> 0]

\* C20 witness: a text that needed two repairs was returned valid, and differs
\* from the text handed in.
C20_Witness ==
    /\ rpc = "done"
    /\ result.isValid
    /\ result.attempts = 2
    /\ result.query # Trim(kql)

----------------------------------------------------------------------------
(* Claims about the result convert assembles                                *)

\* C22: when no stage throws, the result of convert is assembled from the
\* stages: success is the isValid of refineQuery on the generated text, kql its
\* final text, refinements its attempts; confidence is 0.9 exactly when success
\* is true and 0.7 otherwise; examplesUsed is the number of selected examples,
\* at most 3; refinedSchema lists the names handed to the generation call.
C22_ResultAssembledFromStages ==
    \A i \in Invocations :
        (calls[i].pc = "done" /\ calls[i].thrown = None) =>
            /\ calls[i].refinementResult
                  = Some(refineQueryOn[calls[i].llmResponse[1],
                                       CallsOf(i)[1].args.refinedSchema])
            /\ calls[i].result[1].success = calls[i].refinementResult[1].isValid
            /\ calls[i].result[1].kql = Some(calls[i].refinementResult[1].query)
            /\ calls[i].result[1].refinements = Some(calls[i].refinementResult[1].attempts)
            /\ calls[i].result[1].metadata.confidence
                  = Some(IF calls[i].result[1].success
                         THEN [num |-> 9, den |-> 10] ELSE [num |-> 7, den |-> 10])
            /\ calls[i].result[1].examplesUsed = Some(Len(calls[i].examples))
            /\ Len(calls[i].examples) <= 3
            /\ Len(calls[i].examples) = Len(CallsOf(i)[1].args.examples)
            /\ calls[i].result[1].refinedSchema = Some(CallsOf(i)[1].args.refinedSchema)
            /\ calls[i].result[1].metadata.tokensUsed = Some(calls[i].llmResponse[1].tokensUsed)
            /\ calls[i].result[1].error = None

\* C22 witness: one invocation returned a repaired, valid query with
\* confidence 0.9, another one a query three repairs did not complete, with
\* success false and confidence 0.7.
C22_Witness ==
    /\ calls[1].pc = "done"
    /\ calls[1].thrown = None
    /\ calls[1].result[1].success
    /\ calls[1].result[1].refinements = Some(1)
    /\ calls[1].result[1].examplesUsed = Some(3)
    /\ calls[2].pc = "done"
    /\ calls[2].thrown = None
    /\ ~calls[2].result[1].success
    /\ calls[2].result[1].refinements = Some(3)
    /\ calls[2].result[1].metadata.confidence = Some([num |-> 7, den |-> 10])

----------------------------------------------------------------------------
(* Claims about the pipe fix, the loop counters and the surplus closers     *)

\* the position, among the lines of a text, of its n-th line that is not blank
NthNonBlank(lines, n) ==
    CHOOSE k \in 1..Len(lines) :
        /\ NonBlank(lines[k])
        /\ Cardinality({j \in 1..k : NonBlank(lines[j])}) = n

\* the lines of q the checker flags as missing a pipe, by position in q
FlaggedLines(q) ==
    {NthNonBlank(SplitLines(q), e.line) :
        e \in {f \in Range(validateSyntax(q)) : f.msg = "Missing pipe operator at line"}}

\* the lines the pipe fix of a repair of q changed, q2 being the repaired text
RewrittenLines(q, q2) ==
    {k \in 1..Len(SplitLines(q2)) : SplitLines(q2)[k] # SplitLines(delimitersFixed(q))[k]}

\* C23: in a repair of refineQuery after a syntax error, the lines the pipe
\* fix rewrites are exactly the lines the checker flagged: the lines after the
\* first that are not blank and whose trimmed text starts with none of '|',
\* '//' and '.'; each becomes '| ' and its trimmed text, no other line is
\* changed by the pipe fix, and the checker flags no line of the repaired text,
\* blank lines between the statements or not.
C23_FlaggedLinesAreTheRewrittenLines ==
    [][(rpc = "loop" /\ attempts' = attempts + 1) =>
          /\ Len(SplitLines(query')) = Len(SplitLines(query))
          /\ FlaggedLines(query) = RewrittenLines(query, query')
          /\ FlaggedLines(query)
                = {k \in 2..Len(SplitLines(query)) : LacksPipe(Trim(SplitLines(query)[k]))}
          /\ \A k \in FlaggedLines(query) :
                SplitLines(query')[k]
                    = <<"|", " ">> \o Trim(SplitLines(delimitersFixed(query))[k])
          /\ FlaggedLines(query') = {}]_vars

\* C23 witness: a text with a blank line between two statements, the second
\* without pipe, has been repaired.
C23_Witness ==
    /\ kql = <<"a", "\n", "\n", "a">>
    /\ query = <<"a", "\n", "\n", "|", " ", "a">>
    /\ attempts = 1
    /\ rpc = "done"

----------------------------------------------------------------------------
(* Claims about the ranking of refineSchema                                 *)

\* the score of every table of the schema, and of every entry of the list of
\* its columns taken table by table, for the question asked
TableScores(q, schema) ==
    [t \in 1..Len(schema.tables) |-> TableScore(extractEntities(q), schema.tables[t])]

ColumnScores(q, schema) ==
    [c \in 1..Len(AllColumns(schema.tables)) |->
        ColumnScore(extractEntities(q), AllColumns(schema.tables)[c])]

\* the positions of positive score
PositivePositions(scores) == {p \in 1..Len(scores) : scores[p] > 0}

\* the place of position p in the ranking: behind the positive positions of
\* higher score and the earlier positions of the same score
RankOf(scores, p) ==
    1 + Cardinality({o \in PositivePositions(scores) :
                        \/ scores[o] > scores[p]
                        \/ scores[o] = scores[p] /\ o < p})

\* out holds the first cap of the positive-score items in ranking order
FirstRanked(out, items, scores, cap) ==
    /\ Len(out) = SmallerOf(cap, Cardinality(PositivePositions(scores)))
    /\ \A p \in PositivePositions(scores) :
            RankOf(scores, p) <= cap => out[RankOf(scores, p)] = items[p]

\* C24: the tables refineSchema returns are the first 5 tables of positive
\* score, by non-increasing score and in schema order among equal scores; the
\* columns it returns are the first 20 entries of positive score of the column
\* list taken table by table, in the same order; with no entity found both
\* lists are empty and the relevance is 0.
C24_TopRankedPositiveItems ==
    (spc = "done" /\ ~refinedSchema.threw) =>
        /\ FirstRanked(refinedSchema.tables, fullSchema.tables,
                       TableScores(nlq, fullSchema), 5)
        /\ FirstRanked(refinedSchema.columns, AllColumns(fullSchema.tables),
                       ColumnScores(nlq, fullSchema), 20)
        /\ foundEntities = <<>> =>
                /\ refinedSchema.tables = <<>>
                /\ refinedSchema.columns = <<>>
                /\ refinedSchema.relevance.num = 0

\* C24 witness: the default schema was reduced to tables in another order than
\* the schema's, two of them of the same score, and a table of score 0 is left out.
C24_Witness ==
    /\ spc = "done"
    /\ fullSchema = createDefaultSchema
    /\ \E i, j \in 1..Len(refinedSchema.tables) :
            /\ i < j
            /\ \E p, o \in 1..Len(fullSchema.tables) :
                    /\ o < p
                    /\ refinedSchema.tables[i] = fullSchema.tables[p]
                    /\ refinedSchema.tables[j] = fullSchema.tables[o]
    /\ \E p, o \in PositivePositions(TableScores(nlq, fullSchema)) :
            p # o /\ TableScores(nlq, fullSchema)[p] = TableScores(nlq, fullSchema)[o]
    /\ Len(refinedSchema.tables) < Len(fullSchema.tables)

\* C24 witness: more tables and columns have a positive score than the caps admit.
C24_WitnessCapped ==
    /\ spc = "done"
    /\ Cardinality(PositivePositions(TableScores(nlq, fullSchema))) > 5
    /\ Cardinality(PositivePositions(ColumnScores(nlq, fullSchema))) > 20
    /\ Len(refinedSchema.tables) = 5
    /\ Len(refinedSchema.columns) = 20

\* C24 witness: a question in which no entity is found, on a schema with tables.
C24_WitnessNoEntities ==
    /\ spc = "done"
    /\ nlq # <<>>
    /\ foundEntities = <<>>
    /\ fullSchema = createDefaultSchema
    /\ refinedSchema.tables = <<>>

----------------------------------------------------------------------------
(* Claims about the columns of the reduced schema                           *)

\* how many times name n is listed in a list of names
TimesListed(names, n) == Cardinality({k \in 1..Len(names) : names[k] = n})

\* the names of the entries of positive score, for question q, of the column
\* list of the schema taken table by table
NamesOf(scored) == [k \in 1..Len(scored) |-> scored[k].item.name]

PositiveNames(q, schema) ==
    NamesOf(SelectSeq(ScoredColumns(extractEntities(q), AllColumns(schema.tables)),
                      PositiveScore))

\* listed names one entry for each of the positive occurrences, up to the cap
ListedPerOccurrence(listed, positives, cap) ==
    /\ Len(listed) = SmallerOf(cap, Len(positives))
    /\ \A n \in Range(listed) :
          /\ TimesListed(listed, n) <= TimesListed(positives, n)
          /\ Len(positives) <= cap => TimesListed(listed, n) = TimesListed(positives, n)

\* the tables of the schema that define a column of name n
TablesDefining(schema, n) ==
    {t \in Range(schema.tables) : \E c \in 1..Len(t.columns) : t.columns[c].name = n}

\* C29: the column names convert reports and passes on list one entry for every
\* (table, column) occurrence of positive score, up to the cap of 20: names are
\* not de-duplicated, so a name defined in several tables is listed as many
\* times as it has occurrences of positive score, whether or not the tables
\* that define it were selected.
C29_ColumnsListedPerOccurrence ==
    (spc = "done" /\ ~refinedSchema.threw) =>
        \A positives \in {PositiveNames(nlq, fullSchema)} :
            ListedPerOccurrence(reducedNames(refinedSchema).columns, positives, 20)

\* C29 witness: a name defined in two tables is listed twice, and a listed
\* column is defined only by a table that was not selected.
C29_Witness ==
    /\ spc = "done"
    /\ ~refinedSchema.threw
    /\ \E n \in Range(reducedNames(refinedSchema).columns) :
            /\ TimesListed(reducedNames(refinedSchema).columns, n) >= 2
            /\ Cardinality(TablesDefining(fullSchema, n)) >= 2
    /\ \E n \in Range(reducedNames(refinedSchema).columns) :
            /\ TablesDefining(fullSchema, n) # {}
            /\ TablesDefining(fullSchema, n) \cap Range(refinedSchema.tables) = {}

----------------------------------------------------------------------------
(* Claims about the counters and the results of refineQuery                 *)

\* C26: while refineQuery runs, it has recorded as many fix descriptions as it
\* has made attempts; and in every result it returns, isValid is true exactly
\* when the error list is empty and exactly when attempts is less than 3, so a
\* text that needed a third repair is never reported valid.
C26_FixesCountAttemptsAndValidIffUnderCap ==
    /\ rpc \in {"loop", "done"} => Len(fixes) = attempts
    /\ rpc = "done" =>
          /\ Len(result.fixes) = result.attempts
          /\ result.isValid <=> (result.errors = <<>>)
          /\ result.isValid <=> (result.attempts < 3)

\* C26 witness: the third repair left a text the checker passes, and the
\* result is not valid, lists errors and counts 3 attempts and 3 fixes.
C26_Witness ==
    /\ rpc = "done"
    /\ validateSyntax(result.query) = <<>>
    /\ ~result.isValid
    /\ result.errors # <<>>
    /\ result.attempts = 3
    /\ Len(result.fixes) = 3

\* C26 witness: a text is returned valid after two repairs.
C26_WitnessValid ==
    /\ rpc = "done"
    /\ result.isValid
    /\ result.errors = <<>>
    /\ result.attempts = 2
    /\ Len(result.fixes) = 2

\* by how many the closing delimiters of a text outnumber the opening ones
SurplusClosers(s, open, close) ==
    IF CountChar(s, close) > CountChar(s, open)
    THEN CountChar(s, close) - CountChar(s, open) ELSE 0

\* how many times an error is listed
TimesRecorded(errs, e) == Cardinality({k \in 1..Len(errs) : errs[k] = e})

\* refineQuery on a text with surplus closers of one kind: no repair changes
\* the surplus, the error is recorded at every attempt, the result is not valid
SurplusNeverRepaired(open, close, e) ==
    (rpc \in {"loop", "done"} /\ SurplusClosers(kql, open, close) > 0) =>
        /\ SurplusClosers(query, open, close) = SurplusClosers(kql, open, close)
        /\ TimesRecorded(errors, e) = attempts
        /\ rpc = "done" =>
              /\ ~result.isValid
              /\ result.attempts = 3
              /\ TimesRecorded(result.errors, e) = 3

\* C27: a text with more ')' than '(' or more ']' than '[' keeps that surplus
\* through every repair; refineQuery returns it not valid, with 3 attempts and
\* the error 'Unbalanced parentheses' or 'Unbalanced brackets' recorded 3 times.
C27_SurplusClosersNeverRepaired ==
    /\ SurplusNeverRepaired("(", ")", Err("Unbalanced parentheses"))
    /\ SurplusNeverRepaired("[", "]", Err("Unbalanced brackets"))

\* C27 witness: a text with one ')' and one ']' too many, and an open quote
\* that was repaired, has been returned.
C27_Witness ==
    /\ rpc = "done"
    /\ SurplusClosers(kql, "(", ")") = 1
    /\ SurplusClosers(kql, "[", "]") = 1
    /\ result.query # Trim(kql)
    /\ SurplusClosers(result.query, "(", ")") = 1
    /\ SurplusClosers(result.query, "[", "]") = 1
    /\ result.attempts = 3
    /\ ~result.isValid

----------------------------------------------------------------------------
(* Claims about an empty candidate                                          *)

\* texts that are empty or hold whitespace only
BlankTexts == {<<>>, <<" ">>, <<"\n">>, <<" ", "\n", " ">>, <<"\t", " ">>, <<"\r", "\n">>}

\* refineQuery on the blank texts, with and without a schema argument
refineBlankOn ==
    [text \in BlankTexts, schema \in SchemaInputs |-> refineQuery(text, schema)]

\* C28: refineQuery accepts an empty or whitespace-only text: it returns the
\* query '' with isValid true, attempts 0 and no fixes; and when the generation
\* call returns empty text, convert returns success true, kql '' and
\* confidence 0.9.
C28_EmptyCandidateIsAccepted ==
    /\ \A text \in BlankTexts, schema \in SchemaInputs :
          refineBlankOn[text, schema]
              = [query |-> <<>>, isValid |-> TRUE, errors |-> <<>>,
                 fixes |-> <<>>, attempts |-> 0]
    /\ \A i \in Invocations :
          (/\ calls[i].pc = "done"
           /\ calls[i].thrown = None
           /\ calls[i].llmResponse[1].content = <<>>) =>
              /\ calls[i].refinementResult[1].isValid
              /\ calls[i].refinementResult[1].attempts = 0
              /\ calls[i].refinementResult[1].fixes = <<>>
              /\ calls[i].result[1].success
              /\ calls[i].result[1].kql = Some(<<>>)
              /\ calls[i].result[1].refinements = Some(0)
              /\ calls[i].result[1].metadata.confidence = Some([num |-> 9, den |-> 10])
              /\ calls[i].result[1].error = None

\* C28 witness: the generation call of an invocation returned empty text and
\* convert has returned.
C28_Witness ==
    \E i \in Invocations :
        /\ calls[i].pc = "done"
        /\ calls[i].thrown = None
        /\ calls[i].llmResponse = Some([content |-> <<>>, tokensUsed |-> 7])
        /\ calls[i].result[1].success
        /\ calls[i].result[1].kql = Some(<<>>)

----------------------------------------------------------------------------
(* findClosestMatch and fixSemanticErrors, called on their own              *)

MaxCandidates == 2    \* longest candidate list

ClosestNames == {<<>>, <<"b">>, <<"a", "B">>, <<"A", "b">>, <<"a", "b", "c">>,
                 <<"z", "a", "b">>, <<"z", "z">>}

ClosestTargets == ClosestNames \cup {<<"a", "b">>}

CandidateLists == StringsUpTo(ClosestNames, MaxCandidates)

\* texts to repair, and the error descriptions handed to fixSemanticErrors
RepairTexts == {
    <<"a", "b", " ", "|", " ", "w", "h", "e", "r", "e", " ", "A", "B", " ", "=", "=", " ", "z", "a", "b", "_", "a", "b", " ", "a", "n", "d", " ", "b", ".", "A", "b">>,
    <<"x", "a", "b", " ", "|", " ", "w", "h", "e", "r", "e", " ", "a", "b", "_", " ", ">", " ", "1", " ", "a", "n", "d", " ", "(", "a", "B", ")">>}

RepairErrors == {
    ErrName("text", <<"T", "a", "b", "l", "e", " ", "\"", "a", "b", "\"", " ", "n", "o", "t", " ", "f", "o", "u", "n", "d">>),
    ErrName("text", <<"C", "o", "l", "u", "m", "n", " ", "\"", "a", "b", "\"", " ", "n", "o", "t", " ", "f", "o", "u", "n", "d">>),
    ErrName("text", <<"T", "a", "b", "l", "e", " ", "\"", "b", "\"", " ", "n", "o", "t", " ", "f", "o", "u", "n", "d">>),
    ErrName("text", <<"T", "a", "b", "l", "e", " ", "\"", "a", "b", "\"", " ", "n", "o", "t", " ", "i", "n", " ", "p", "r", "o", "v", "i", "d", "e", "d", " ", "s", "c", "h", "e", "m", "a", " ", "(", "m", "a", "y", " ", "s", "t", "i", "l", "l", " ", "b", "e", " ", "v", "a", "l", "i", "d", ")">>)}

RepairTables == {<<>>, <<<<"a", "b", "c">>, <<"z", "a", "b">>>>, <<<<"z", "a", "b">>, <<"A", "b">>>>,
                 <<<<>>, <<"z", "z">>>>, <<<<"b">>, <<"a", "b", "c">>>>}

RepairSchemas == {SchemaOf(ts, cols) : ts \in RepairTables, cols \in {<<>>, <<<<"a", "b", "c">>>>}}

\* a refiner just constructed, and one call of findClosestMatch
FindClosestMatchCall ==
    /\ rpc = "idle"
    /\ \E target \in ClosestTargets, candidates \in CandidateLists :
        result' = [op |-> "findClosestMatch", target |-> target, candidates |-> candidates,
                   value |-> findClosestMatch(target, candidates)]
    /\ rpc' = "done"
    /\ UNCHANGED <<kql, schemaArg, query, attempts, errors, fixes,
                   schemaVars, engineVars, selectorVars, serverVars, kustoVars>>

\* a refiner just constructed, and one call of fixSemanticErrors
FixSemanticErrorsCall ==
    /\ rpc = "idle"
    /\ \E text \in RepairTexts, e \in RepairErrors, schema \in RepairSchemas :
        /\ kql' = text
        /\ errors' = <<e>>
        /\ schemaArg' = schema
        /\ query' = fixSemanticErrors(text, <<e>>, schema)
        /\ result' = [op |-> "fixSemanticErrors", target |-> FirstQuoted(Render(e)),
                      candidates |-> IF Includes(Render(e), <<"T", "a", "b", "l", "e">>)
                                     THEN schema.tables ELSE schema.columns,
                      value |-> findClosestMatch(FirstQuoted(Render(e)),
                                                 IF Includes(Render(e), <<"T", "a", "b", "l", "e">>)
                                                 THEN schema.tables ELSE schema.columns)]
    /\ rpc' = "done"
    /\ UNCHANGED <<attempts, fixes, schemaVars, engineVars, selectorVars, serverVars, kustoVars>>

NextClosest == FindClosestMatchCall \/ FixSemanticErrorsCall

SpecClosest == InitRefine /\ [][NextClosest]_vars

----------------------------------------------------------------------------
(* Claims about the closest-match repair                                    *)

\* the candidates equal to the target but for case
ExactMatches(target, candidates) ==
    {k \in 1..Len(candidates) : ToLowerCase(candidates[k]) = ToLowerCase(target)}

\* the candidates that contain the target or are contained in it, but for case
Containing(target, candidates) ==
    {k \in 1..Len(candidates) :
        \/ Includes(ToLowerCase(candidates[k]), ToLowerCase(target))
        \/ Includes(ToLowerCase(target), ToLowerCase(candidates[k]))}

\* those of them that are not empty, the target not being empty either
ContainingNonEmpty(target, candidates) ==
    {k \in Containing(target, candidates) : Len(candidates[k]) > 0 /\ Len(target) > 0}

\* the ratio of the smaller to the larger length
RatioAt(target, candidates, k) == LengthRatio(Len(candidates[k]), Len(target))

\* the first of the candidates `among` of the highest ratio
BestOf(target, candidates, among) ==
    CHOOSE k \in among :
        /\ \A o \in among :
              ~ScoreGreater(RatioAt(target, candidates, o), RatioAt(target, candidates, k))
        /\ \A o \in among :
              o < k => ScoreGreater(RatioAt(target, candidates, k),
                                    RatioAt(target, candidates, o))

\* value is what the claim says of findClosestMatch, qualifying being the
\* candidates among which the highest ratio is looked for
ClosestAsStated(value, target, candidates, qualifying) ==
    IF ExactMatches(target, candidates) # {}
    THEN /\ value.found
         /\ value.match \in {candidates[k] : k \in ExactMatches(target, candidates)}
    ELSE IF qualifying # {}
    THEN /\ value.found
         /\ value.match = candidates[BestOf(target, candidates, qualifying)]
    ELSE ~value.found

\* the whole-word occurrences of word w in a text, but for case
WordOccurrences(text, w) ==
    {i \in 1..Len(text) :
        /\ MatchAtCI(text, i, ToLowerCase(w))
        /\ (i = 1 \/ ~IsWordChar(text[i - 1]))
        /\ (i + Len(w) > Len(text) \/ ~IsWordChar(text[i + Len(w)]))}

\* by how much position j of the text has moved once the occurrences before it
\* are replaced by rep
ShiftAt(text, w, rep, j) ==
    Cardinality({o \in WordOccurrences(text, w) : o < j}) * (Len(rep) - Len(w))

\* out is the text with every whole-word occurrence of w replaced by rep and
\* every other character kept
WholeWordsReplaced(text, w, rep, out) ==
    /\ Len(out) = Len(text) + ShiftAt(text, w, rep, Len(text) + 1)
    /\ \A o \in WordOccurrences(text, w) :
          Slice(out, o + ShiftAt(text, w, rep, o),
                     o + ShiftAt(text, w, rep, o) + Len(rep) - 1) = rep
    /\ \A j \in 1..Len(text) :
          (\A o \in WordOccurrences(text, w) : j < o \/ j >= o + Len(w)) =>
              out[j + ShiftAt(text, w, rep, j)] = text[j]

\* does fixSemanticErrors act on the error: it names a table or column 'not found'
Repairable(e) ==
    /\ Includes(Render(e), <<"n", "o", "t", " ", "f", "o", "u", "n", "d">>)
    /\ \/ Includes(Render(e), <<"T", "a", "b", "l", "e">>)
       \/ Includes(Render(e), <<"C", "o", "l", "u", "m", "n">>)

\* the repair of one error replaces the whole-word occurrences of the name the
\* error quotes by the closest match, and changes nothing when there is none
RepairAsStated ==
    (rpc = "done" /\ result.op = "fixSemanticErrors") =>
        IF Repairable(errors[1]) /\ result.value.found
        THEN WholeWordsReplaced(kql, result.target, result.value.match, query)
        ELSE query = kql

C25_WitnessExact ==
    /\ rpc = "done"
    /\ result.op = "findClosestMatch"
    /\ result.target = <<"a", "b">>
    /\ result.candidates = <<<<"a", "b", "c">>, <<"A", "b">>>>
    /\ result.value.match = <<"A", "b">>

----------------------------------------------------------------------------
(* server.ts: the POST /api/nl2kql handler in front of the engine           *)

InitServer ==
    /\ defaultSchema = "default"
    /\ examples = defaultExampleRefs
    /\ now = 0
    /\ calls = [i \in Invocations |-> IdleCall]
    /\ llmLog = <<>>
    /\ installed = "default"
    /\ kustoInitialized = FALSE
    /\ fetched = [i \in Invocations |-> "none"]
    /\ kustoService = Parked
    /\ RefineParked
    /\ SchemaParked
    /\ SelectorParked

\* kustoConnection.initialize() of the start-up resolves: kustoInitialized = true
StartupInitializeResolves ==
    /\ ~kustoInitialized
    /\ kustoInitialized' = TRUE
    /\ UNCHANGED <<fetched, engineVars, refineVars, schemaVars, selectorVars, kustoVars>>

\* a request that asks for no schema fetch (no connection, or no database
\* named): the handler calls convert at once
HandleWithoutFetch(i) ==
    /\ calls[i].pc = "idle"
    /\ \A j \in Invocations : j < i => calls[j].pc # "idle"
    /\ \E request \in Requests :
        /\ ~(kustoInitialized /\ Truthy(request.database))
        /\ ConvertSync(i, request, defaultSchema)
    /\ fetched' = [fetched EXCEPT ![i] = "skipped"]
    /\ UNCHANGED <<defaultSchema, now, installed, kustoInitialized,
                   refineVars, schemaVars, selectorVars, kustoVars>>

\* a request that names a database while the connection is up: the handler
\* awaits kustoConnection.getDatabaseSchema()
HandleWithFetch(i) ==
    /\ calls[i].pc = "idle"
    /\ \A j \in Invocations : j < i => calls[j].pc # "idle"
    /\ kustoInitialized
    /\ \E request \in Requests :
        /\ Truthy(request.database)
        /\ calls' = [calls EXCEPT ![i] = [IdleCall EXCEPT !.pc = "fetching",
                                                          !.request = request]]
    /\ fetched' = [fetched EXCEPT ![i] = "fetching"]
    /\ UNCHANGED <<defaultSchema, examples, now, llmLog, installed, kustoInitialized,
                   refineVars, schemaVars, selectorVars, kustoVars>>

\* the fetch returns: updateSchema installs the live schema, then convert
FetchReturns(i) ==
    /\ calls[i].pc = "fetching"
    /\ defaultSchema' = updateSchema(defaultSchema, "live")
    /\ installed' = "live"
    /\ ConvertSync(i, calls[i].request, updateSchema(defaultSchema, "live"))
    /\ fetched' = [fetched EXCEPT ![i] = "returned"]
    /\ UNCHANGED <<now, kustoInitialized, refineVars, schemaVars, selectorVars, kustoVars>>

\* the fetch throws: the catch block warns, then convert
FetchFails(i) ==
    /\ calls[i].pc = "fetching"
    /\ ConvertSync(i, calls[i].request, defaultSchema)
    /\ fetched' = [fetched EXCEPT ![i] = "failed"]
    /\ UNCHANGED <<defaultSchema, now, installed, kustoInitialized,
                   refineVars, schemaVars, selectorVars, kustoVars>>

NextServer ==
    \/ StartupInitializeResolves
    \/ \E i \in Invocations : HandleWithoutFetch(i)
    \/ \E i \in Invocations : HandleWithFetch(i)
    \/ \E i \in Invocations : FetchReturns(i)
    \/ \E i \in Invocations : FetchFails(i)
    \/ \E i \in Invocations : GenerationReturns(i)
    \/ \E i \in Invocations : GenerationFails(i)

SpecServer == InitServer /\ [][NextServer]_vars

\* C21: a request whose schema fetch failed is not failed: it is converted,
\* and against the default schema the engine was constructed with, whatever
\* requests came before, also ones whose fetch installed a live schema.
C21_FailedFetchFallsBackToDefault ==
    \A i \in Invocations :
        fetched[i] = "failed" =>
            /\ calls[i].pc \in {"awaiting", "done"}
            /\ calls[i].schemaRead = "default"
            /\ calls[i].pc = "awaiting" =>
                  calls[i].refinedSchema = refineSchemaOn[calls[i].request.query, "default"]

----------------------------------------------------------------------------
(* KustoConnectionService                                                   *)

MaxKustoCalls == 4    \* calls of initialize and executeQuery made on the service

\* private client: Client | null = null; private database: string | null = null;
\* pc is "testing" while initialize awaits its test query; log lists the calls
\* that have settled, in order
NewKustoService ==
    [client |-> None, database |-> None, pc |-> "idle", log |-> <<>>]

\* isInitialized()
isInitialized(svc) == svc.client # None /\ svc.database # None

\* executeQuery, the guard: !this.client || !this.database
NotInitializedError == "Kusto connection not initialized. Call initialize() first."

InitKusto ==
    /\ kustoService = NewKustoService
    /\ kustoInitialized = Parked
    /\ fetched = Parked
    /\ RefineParked
    /\ SchemaParked
    /\ EngineParked
    /\ SelectorParked

\* initialize() is called and throws before the client is created (the
\* credential or the connection string cannot be built): the catch rethrows
InitializeThrowsEarly ==
    /\ kustoService.pc = "idle"
    /\ Len(kustoService.log) < MaxKustoCalls
    /\ kustoService' = [kustoService EXCEPT
                            !.log = Append(@, [op |-> "initialize", outcome |-> "rejected"])]
    /\ UNCHANGED <<kustoInitialized, fetched, refineVars, schemaVars, engineVars, selectorVars>>

\* initialize() is called, creates the client, sets the database and awaits
\* the test query
InitializeStart ==
    /\ kustoService.pc = "idle"
    /\ Len(kustoService.log) < MaxKustoCalls
    /\ kustoService' = [kustoService EXCEPT !.client = Some("Client"),
                                            !.database = Some("Samples"),
                                            !.pc = "testing"]
    /\ UNCHANGED <<kustoInitialized, fetched, refineVars, schemaVars, engineVars, selectorVars>>

\* the test query returns: initialize() resolves
InitializeTestReturns ==
    /\ kustoService.pc = "testing"
    /\ kustoService' = [kustoService EXCEPT
                            !.pc = "idle",
                            !.log = Append(@, [op |-> "initialize", outcome |-> "resolved"])]
    /\ UNCHANGED <<kustoInitialized, fetched, refineVars, schemaVars, engineVars, selectorVars>>

\* the test query throws: the catch block logs and rethrows
InitializeTestFails ==
    /\ kustoService.pc = "testing"
    /\ kustoService' = [kustoService EXCEPT
                            !.pc = "idle",
                            !.log = Append(@, [op |-> "initialize", outcome |-> "rejected"])]
    /\ UNCHANGED <<kustoInitialized, fetched, refineVars, schemaVars, engineVars, selectorVars>>

\* executeQuery(query) is called and settles: the guard throws, or the query
\* is sent to the cluster, which answers or fails
ExecuteQueryCall ==
    /\ Len(kustoService.log) < MaxKustoCalls
    /\ \E outcome \in (IF kustoService.client = None \/ kustoService.database = None
                       THEN {NotInitializedError}
                       ELSE {"returned", "Query execution failed"}) :
        kustoService' = [kustoService EXCEPT
                            !.log = Append(@, [op |-> "executeQuery", outcome |-> outcome])]
    /\ UNCHANGED <<kustoInitialized, fetched, refineVars, schemaVars, engineVars, selectorVars>>

NextKusto ==
    \/ InitializeThrowsEarly
    \/ InitializeStart
    \/ InitializeTestReturns
    \/ InitializeTestFails
    \/ ExecuteQueryCall

SpecKusto == InitKusto /\ [][NextKusto]_vars

\* has a call of initialize resolved among the first n settled calls
ResolvedWithin(svc, n) ==
    \E j \in 1..n : svc.log[j] = [op |-> "initialize", outcome |-> "resolved"]

\* C30: as long as no initialize() has completed successfully, isInitialized()
\* is false and executeQuery rejects with the not-initialized error, also
\* after an initialize() that rejected.
C30_FailedInitializeLeavesUninitialized ==
    /\ ~ResolvedWithin(kustoService, Len(kustoService.log)) => ~isInitialized(kustoService)
    /\ \A k \in 1..Len(kustoService.log) :
          (kustoService.log[k].op = "executeQuery" /\ ~ResolvedWithin(kustoService, k)) =>
              kustoService.log[k].outcome = NotInitializedError

====
